---------------------------- MODULE Spec2Model ----------------------------
(***************************************************************************)
(* Hyperliquid trade ledger: ingestion of a user's fills and the position  *)
(* / lifecycle reconstruction of PositionTracker.                          *)
(*                                                                         *)
(* Numbers.  The code keeps sizes and prices as decimal strings and does   *)
(* its arithmetic on IEEE doubles (utils/decimal.ts, parseFloat).  Sizes   *)
(* and prices are drawn here from small integers, on which the double      *)
(* sums, differences and products of the code are exact; the one quotient  *)
(* of calculateAvgEntryPx is kept as an exact fraction <<num, den>> in     *)
(* lowest terms.                                                           *)
(***************************************************************************)
EXTENDS Integers, Sequences, FiniteSets, TLC

\* ------------------------------------------------------------------ bounds
MaxFills == 3
MaxIngest == 2
MaxSz == 2
MaxAvgSz == 3
MaxQueryMs == 2
MaxTid == 2
MaxFetchMs == 2
\* a full page of the venue: 2000 fills in the source, scaled to the pages of the model
FullBatch == 2
MaxTenths == 3
MaxDecFills == 4

\* --------------------------------------------------------------- constants
Null == 0
maxBatches == 50

Users == {"u1"}
\* every account the venue knows; the specifications on one account act on Users only
Accounts == {"u1", "u2"}
Coins == {"BTC"}
Sides == {"B", "A"}
Sizes == 1 .. MaxSz
Prices == {50000, 52000}
BuilderFees == {0, 1}
Fees == {2}
Equities == {0, 1000000}
Procs == {1}
\* every request slot of the process; the serial specifications use those of Procs only
Workers == {1, 2}

\* ------------------------------------------------------------------- state
VARIABLES
  upstream,    \* the venue's fill history of each user, oldest first
  fillsDb,     \* table fills (unique tid)
  positions,   \* table positions (unique user, coin, timeMs)
  lifecycles,  \* table position_lifecycles (serial id = index)
  trk,         \* per request: locals of ingestUserFills / reconstructPositionHistory
  ingests,     \* number of ingestion requests started
  lcFills,     \* history: the fills processed while each lifecycle was current
  lastPass,    \* history: the last completed reconstruction pass
  avgCall,     \* the last direct call of calculateAvgEntryPx (SpecAvg)
  equity,      \* the venue's account value of each user
  equityDb,    \* table equity_snapshots (unique user, timeMs)
  resp,        \* the response of the request being served, or the report of a finished
               \* ingestMultipleUsers
  depositsDb,  \* table deposits (unique user, timeMs)
  fetch,       \* locals of one call of HyperliquidDatasource.getUserFills (SpecFetch)
  dec          \* the size locals of a pass over fills of fractional size (SpecDec)

vars == <<upstream, fillsDb, positions, lifecycles, trk, ingests, lcFills,
          lastPass, avgCall, equity, equityDb, resp, depositsDb, fetch, dec>>

\* ------------------------------------------------------------ arithmetic
Abs(x) == IF x < 0 THEN -x ELSE x

RECURSIVE GCD(_, _)
GCD(a, b) == IF b = 0 THEN a ELSE GCD(b, a % b)

\* a non-negative fraction in lowest terms
Frac(n, d) == LET g == GCD(n, d) IN <<n \div g, d \div g>>

Rat(i) == <<i, 1>>

ZeroPx == Rat(0)

\* faulty variant: a size of one unit counts as zero
isZeroBelowTwo(a) == Abs(a) < 2

\* decimal.isZero
isZero(a) == a = 0

\* decimal.add
add(a, b) == a + b

\* decimal.multiply
multiply(a, b) == a * b


\* ------------------------------------- the decimal utilities on fractions
\* utils/decimal.ts computes on JavaScript numbers: parseFloat gives the binary64 number
\* nearest to the decimal text and every + rounds to nearest, ties to even.  A number is
\* [neg, exp, bits]: bits holds the Precision bits of the significand, first bit 1 of
\* weight 2^exp; zero has no bits.  Number-to-text-to-number gives the same number back
\* (the text is the shortest that parses to it), so a string local of the tracker is
\* modelled by the number it was printed from.
Precision == 53

FloatZero == [neg |-> FALSE, exp |-> 0, bits |-> <<>>]

Front(s) == SubSeq(s, 1, Len(s) - 1)

Last(s) == s[Len(s)]

Zeros(n) == [i \in 1 .. n |-> 0]

\* the bits of a non-negative integer, highest first
RECURSIVE IntBits(_)
IntBits(n) == IF n = 0 THEN <<>> ELSE IntBits(n \div 2) \o <<n % 2>>

\* the first n binary digits of r / 10 (r < 10) and, when the rest is not zero, one more 1
RECURSIVE FracBits(_, _)
FracBits(r, n) ==
  IF n = 0 THEN (IF r # 0 THEN <<1>> ELSE <<>>)
  ELSE <<(2 * r) \div 10>> \o FracBits((2 * r) % 10, n - 1)

\* u + v + carry on bit strings of one length; the result is one bit longer.  The carry
\* into a place comes from the nearest lower place where both bits are 1, through places
\* where one bit is 1, or from the carry passed in through such places
AddBits(u, v, carry) ==
  LET n == Len(u)
      into(i) == IF \/ \E j \in i + 1 .. n : /\ u[j] + v[j] = 2
                                             /\ \A k \in i + 1 .. j - 1 : u[k] + v[k] = 1
                    \/ carry = 1 /\ \A k \in i + 1 .. n : u[k] + v[k] >= 1
                   THEN 1 ELSE 0
  IN  [i \in 1 .. n + 1 |-> IF i = 1 THEN into(0)
                            ELSE (u[i - 1] + v[i - 1] + into(i - 1)) % 2]

\* bits + 1
Increment(bits) ==
  LET sum == AddBits(bits, Zeros(Len(bits)), 1)
  IN  IF sum[1] = 1 THEN sum ELSE Tail(sum)

StripZeros(bits) ==
  IF \A i \in 1 .. Len(bits) : bits[i] = 0 THEN <<>>
  ELSE LET first == CHOOSE i \in 1 .. Len(bits) :
                      bits[i] = 1 /\ \A k \in 1 .. i - 1 : bits[k] = 0
       IN  SubSeq(bits, first, Len(bits))

\* the binary64 number nearest to the exact value bits * 2^exp (first bit of weight
\* 2^exp), ties to the even significand
RoundNearestEven(neg, exp, bits) ==
  LET lead == StripZeros(bits)
      e == exp - (Len(bits) - Len(lead))
  IN  IF lead = <<>> THEN FloatZero
      ELSE IF Len(lead) <= Precision
        THEN [neg |-> neg, exp |-> e, bits |-> lead \o Zeros(Precision - Len(lead))]
      ELSE LET kept == SubSeq(lead, 1, Precision)
               half == lead[Precision + 1] = 1
               more == \E i \in Precision + 2 .. Len(lead) : lead[i] = 1
               up == half /\ (more \/ kept[Precision] = 1)
               sum == IF up THEN Increment(kept) ELSE kept
           IN  IF Len(sum) > Precision
                 THEN [neg |-> neg, exp |-> e + 1, bits |-> SubSeq(sum, 1, Precision)]
                 ELSE [neg |-> neg, exp |-> e, bits |-> sum]

\* parseFloat of a decimal text with one digit behind the point, given in tenths
parseFloat(tenths) ==
  LET whole == IntBits(Abs(tenths) \div 10)
  IN  RoundNearestEven(tenths < 0, Len(whole) - 1,
                       whole \o FracBits(Abs(tenths) % 10, Precision + 5))

\* u - v - borrow on bit strings of one length, u >= v
SubBits(u, v, borrow) ==
  LET n == Len(u)
      from(i) == IF \/ \E j \in i + 1 .. n : /\ u[j] < v[j]
                                             /\ \A k \in i + 1 .. j - 1 : u[k] = v[k]
                    \/ borrow = 1 /\ \A k \in i + 1 .. n : u[k] <= v[k]
                   THEN 1 ELSE 0
  IN  [i \in 1 .. n |-> (u[i] - v[i] - from(i) + 2) % 2]

\* u > v on bit strings of one length
GreaterBits(u, v) ==
  \E i \in 1 .. Len(u) : u[i] > v[i] /\ \A k \in 1 .. i - 1 : u[k] = v[k]

\* a + b of two numbers: the exact sum, rounded
FloatAdd(a, b) ==
  IF a.bits = <<>> THEN b
  ELSE IF b.bits = <<>> THEN a
  ELSE LET top == IF a.exp >= b.exp THEN a.exp ELSE b.exp
           low == IF a.exp <= b.exp THEN a.exp ELSE b.exp
           u == Zeros(top - a.exp) \o a.bits \o Zeros(a.exp - low)
           v == Zeros(top - b.exp) \o b.bits \o Zeros(b.exp - low)
       IN  IF a.neg = b.neg THEN RoundNearestEven(a.neg, top + 1, AddBits(u, v, 0))
           ELSE IF u = v THEN FloatZero
           ELSE IF GreaterBits(u, v) THEN RoundNearestEven(a.neg, top, SubBits(u, v, 0))
           ELSE RoundNearestEven(b.neg, top, SubBits(v, u, 0))

\* a * -1
FloatNegate(a) == IF a.bits = <<>> THEN a ELSE [a EXCEPT !.neg = ~a.neg]

\* decimal.isZero on a number
FloatIsZero(a) == a.bits = <<>>

\* the size locals before the first fill of a pass; exact is the sum of the signed sizes
\* in tenths, the value an exact decimal type would hold
NoDec ==
  [fills |-> <<>>, netSize |-> FloatZero, exact |-> 0, currentLifecycleId |-> Null,
   created |-> 0, closed |-> 0]


\* ------------------------------------------------- fills and their order
\* an optional closedPnl: <<>> when the fill carries none, <<v>> when it carries v
NoPnl == <<>>

\* an optional tid: <<>> when the fill carries none, <<n>> when it carries n
NoTid == <<>>

\* Fill (types/index.ts); builderFee 0 stands for an absent or zero fee
FillRec(tid, user, coin, timeMs, side, sz, px, fee, closedPnl, builderFee) ==
  [tid |-> tid, user |-> user, coin |-> coin, timeMs |-> timeMs, side |-> side,
   sz |-> sz, px |-> px, fee |-> fee, closedPnl |-> closedPnl, builderFee |-> builderFee]

\* insertion of f behind every element that does not come after it
RECURSIVE InsertByTime(_, _)
InsertByTime(s, f) ==
  IF s = <<>> THEN <<f>>
  ELSE IF Head(s).timeMs - f.timeMs > 0 THEN <<f>> \o s
  ELSE <<Head(s)>> \o InsertByTime(Tail(s), f)

RECURSIVE SortFrom(_, _)
SortFrom(acc, s) ==
  IF s = <<>> THEN acc ELSE SortFrom(InsertByTime(acc, Head(s)), Tail(s))

\* faulty variant: the array is used in the order it was passed
SortByTimeUnsorted(fills) == fills

\* [...fills].sort((a, b) => a.timeMs - b.timeMs): stable, ties keep input order
SortByTime(fills) == SortFrom(<<>>, fills)

\* --------------------------------------------------------- PositionTracker
\* faulty variant: a sell adds its size like a buy
signedFillSizeUnsigned(fill) == fill.sz

signedFillSize(fill) ==
  IF fill.side = "B" THEN fill.sz ELSE multiply(fill.sz, -1)

isBuilderFill(fill) == fill.builderFee > 0

calculateAvgEntryPx(oldSize, oldAvgPx, fillSize, fillPx) ==
  LET oldSizeNum == oldSize
      fillSizeNum == fillSize
      newSizeNum == oldSizeNum + fillSizeNum
  IN  IF newSizeNum = 0 THEN ZeroPx
      ELSE IF oldSizeNum = 0 THEN Rat(fillPx)
      ELSE IF (oldSizeNum > 0 /\ fillSizeNum > 0) \/ (oldSizeNum < 0 /\ fillSizeNum < 0)
        THEN Frac(Abs(oldSizeNum) * oldAvgPx[1] + Abs(fillSizeNum) * fillPx * oldAvgPx[2],
                  Abs(newSizeNum) * oldAvgPx[2])
      ELSE IF Abs(newSizeNum) < Abs(oldSizeNum) THEN oldAvgPx
      ELSE IF (oldSizeNum > 0 /\ newSizeNum < 0) \/ (oldSizeNum < 0 /\ newSizeNum > 0)
        THEN Rat(fillPx)
      ELSE oldAvgPx

\* faulty variant: the new row keeps the column defaults of both flags
LifecycleCreateDefaultFlags(lcs, user, coin, startMs, hb, hnb) ==
  Append(lcs, [id |-> Len(lcs) + 1, user |-> user, coin |-> coin, startMs |-> startMs,
               endMs |-> Null, hasBuilderFills |-> FALSE, hasNonBuilderFills |-> FALSE])

\* prisma.positionLifecycle.create: a new row with the next serial id
LifecycleCreate(lcs, user, coin, startMs, hb, hnb) ==
  Append(lcs, [id |-> Len(lcs) + 1, user |-> user, coin |-> coin, startMs |-> startMs,
               endMs |-> Null, hasBuilderFills |-> hb, hasNonBuilderFills |-> hnb])

\* faulty variant: the close writes the start of the lifecycle as its end
LifecycleCloseAtStart(lcs, id, endMs, hb, hnb) ==
  [lcs EXCEPT ![id].endMs = lcs[id].startMs, ![id].hasBuilderFills = hb,
              ![id].hasNonBuilderFills = hnb]

\* prisma.positionLifecycle.update with endMs and both flags
LifecycleClose(lcs, id, endMs, hb, hnb) ==
  [lcs EXCEPT ![id].endMs = endMs, ![id].hasBuilderFills = hb,
              ![id].hasNonBuilderFills = hnb]

\* prisma.positionLifecycle.update with both flags only
LifecycleFlags(lcs, id, hb, hnb) ==
  [lcs EXCEPT ![id].hasBuilderFills = hb, ![id].hasNonBuilderFills = hnb]

\* faulty variant: every write inserts a row
PositionUpsertInsert(pos, user, coin, timeMs, netSize, avgEntryPx) ==
  pos \cup {[user |-> user, coin |-> coin, timeMs |-> timeMs, netSize |-> netSize,
             avgEntryPx |-> avgEntryPx]}

\* prisma.position.upsert on (user, coin, timeMs)
PositionUpsert(pos, user, coin, timeMs, netSize, avgEntryPx) ==
  {s \in pos : ~(s.user = user /\ s.coin = coin /\ s.timeMs = timeMs)}
    \cup {[user |-> user, coin |-> coin, timeMs |-> timeMs, netSize |-> netSize,
           avgEntryPx |-> avgEntryPx]}

\* faulty variant: only the opening fill sets the flags
FlagsAfterOpeningOnly(opens, cur, hb, hnb, isB) ==
  IF opens THEN <<isB, ~isB>> ELSE <<hb, hnb>>

\* faulty variant: a fill that finds a lifecycle open marks both kinds
FlagsAfterBoth(opens, cur, hb, hnb, isB) ==
  IF opens THEN <<isB, ~isB>>
  ELSE IF cur # Null THEN <<TRUE, TRUE>>
  ELSE <<hb, hnb>>

\* the flags after a fill: set by the opening fill, OR-ed while a lifecycle is current
FlagsAfter(opens, cur, hb, hnb, isB) ==
  IF opens THEN <<isB, ~isB>>
  ELSE IF cur # Null THEN <<hb \/ isB, hnb \/ ~isB>>
  ELSE <<hb, hnb>>

\* the locals of a pass before its first fill, on the given tables
PassInit(pos, lcs, hist) ==
  [netSize |-> 0, avgEntryPx |-> ZeroPx, currentLifecycleId |-> Null,
   hasBuilderFills |-> FALSE, hasNonBuilderFills |-> FALSE,
   positions |-> pos, lifecycles |-> lcs, lcFills |-> hist]

\* one iteration of the loop over sortedFills
ProcessFill(m, user, coin, fill) ==
  LET fillSize == signedFillSize(fill)
      oldSize == m.netSize
      newSize == add(m.netSize, fillSize)
      isB == isBuilderFill(fill)
      opens == isZero(oldSize) /\ ~isZero(newSize)
      safeguarded == IF opens /\ m.currentLifecycleId # Null
                       THEN LifecycleClose(m.lifecycles, m.currentLifecycleId, fill.timeMs,
                                           m.hasBuilderFills, m.hasNonBuilderFills)
                       ELSE m.lifecycles
      lcs1 == IF opens
                THEN LifecycleCreate(safeguarded, user, coin, fill.timeMs, isB, ~isB)
                ELSE m.lifecycles
      cur1 == IF opens THEN Len(lcs1) ELSE m.currentLifecycleId
      flags == FlagsAfter(opens, m.currentLifecycleId, m.hasBuilderFills,
                          m.hasNonBuilderFills, isB)
      avg1 == calculateAvgEntryPx(oldSize, m.avgEntryPx, fillSize, fill.px)
      pos1 == PositionUpsert(m.positions, user, coin, fill.timeMs, newSize, avg1)
      closes == ~isZero(oldSize) /\ isZero(newSize) /\ cur1 # Null
      lcs2 == IF closes THEN LifecycleClose(lcs1, cur1, fill.timeMs, flags[1], flags[2])
                        ELSE lcs1
      hist1 == IF opens THEN Append(m.lcFills, <<fill>>)
               ELSE IF m.currentLifecycleId # Null
                 THEN [m.lcFills EXCEPT ![m.currentLifecycleId] = Append(@, fill)]
               ELSE m.lcFills
  IN  [netSize |-> newSize,
       avgEntryPx |-> IF closes THEN ZeroPx ELSE avg1,
       currentLifecycleId |-> IF closes THEN Null ELSE cur1,
       hasBuilderFills |-> IF closes THEN FALSE ELSE flags[1],
       hasNonBuilderFills |-> IF closes THEN FALSE ELSE flags[2],
       positions |-> pos1, lifecycles |-> lcs2, lcFills |-> hist1]

\* the update after the loop of a lifecycle that is still open
PassFinal(m) ==
  IF m.currentLifecycleId # Null
    THEN [m EXCEPT !.lifecycles = LifecycleFlags(m.lifecycles, m.currentLifecycleId,
                                                  m.hasBuilderFills, m.hasNonBuilderFills)]
    ELSE m

\* the tables after each write of one iteration of the loop, in the order of the writes:
\* the safeguard update, the create, the snapshot upsert, the closing update
WriteStages(m, user, coin, fill) ==
  LET fillSize == signedFillSize(fill)
      oldSize == m.netSize
      newSize == add(m.netSize, fillSize)
      isB == isBuilderFill(fill)
      opens == isZero(oldSize) /\ ~isZero(newSize)
      safeguarded == IF opens /\ m.currentLifecycleId # Null
                       THEN LifecycleClose(m.lifecycles, m.currentLifecycleId, fill.timeMs,
                                           m.hasBuilderFills, m.hasNonBuilderFills)
                       ELSE m.lifecycles
      lcs1 == IF opens
                THEN LifecycleCreate(safeguarded, user, coin, fill.timeMs, isB, ~isB)
                ELSE m.lifecycles
      cur1 == IF opens THEN Len(lcs1) ELSE m.currentLifecycleId
      flags == FlagsAfter(opens, m.currentLifecycleId, m.hasBuilderFills,
                          m.hasNonBuilderFills, isB)
      avg1 == calculateAvgEntryPx(oldSize, m.avgEntryPx, fillSize, fill.px)
      pos1 == PositionUpsert(m.positions, user, coin, fill.timeMs, newSize, avg1)
      closes == ~isZero(oldSize) /\ isZero(newSize) /\ cur1 # Null
      lcs2 == IF closes THEN LifecycleClose(lcs1, cur1, fill.timeMs, flags[1], flags[2])
                        ELSE lcs1
  IN  (IF opens /\ m.currentLifecycleId # Null
         THEN <<[positions |-> m.positions, lifecycles |-> safeguarded]>> ELSE <<>>)
      \o (IF opens THEN <<[positions |-> m.positions, lifecycles |-> lcs1]>> ELSE <<>>)
      \o <<[positions |-> pos1, lifecycles |-> lcs1]>>
      \o (IF closes THEN <<[positions |-> pos1, lifecycles |-> lcs2]>> ELSE <<>>)

RECURSIVE FoldFills(_, _, _, _)
FoldFills(m, user, coin, fs) ==
  IF fs = <<>> THEN m
  ELSE FoldFills(ProcessFill(m, user, coin, Head(fs)), user, coin, Tail(fs))

\* the tables a whole pass over the array fills leaves, started on the tables of store
reconstructPositionHistory(store, user, coin, fills) ==
  IF Len(fills) = 0 THEN store
  ELSE LET hist == [i \in 1 .. Len(store.lifecycles) |-> <<>>]
           m == PassFinal(FoldFills(PassInit(store.positions, store.lifecycles, hist),
                                    user, coin, SortByTime(fills)))
       IN  [positions |-> m.positions, lifecycles |-> m.lifecycles]


\* ------------------------------------------------------------- datasource
NoCoin == ""

\* HyperliquidDatasource.getUserFills seen by its result: the user's fills, those of
\* coin when one is given, by ascending time
getUserFills(user, coin) ==
  LET all == IF user \in DOMAIN upstream THEN upstream[user] ELSE <<>>
      filtered == IF coin # NoCoin THEN SelectSeq(all, LAMBDA f : f.coin = coin) ELSE all
  IN  SortFrom(<<>>, filtered)

\* HyperliquidDatasource.getUserEquity: the account value the venue reports
getUserEquity(user) == equity[user]

\* ------------------------------------------------------- IngestionService
\* Date.now() at the end of a request: later than every fill the venue has executed
Now ==
  LET ts == {0} \cup UNION {{upstream[u][i].timeMs : i \in 1 .. Len(upstream[u])} :
                              u \in Accounts}
  IN  1 + (CHOOSE t \in ts : \A x \in ts : x <= t)

\* prisma.equitySnapshot.upsert on (user, timeMs)
EquityUpsert(db, user, timeMs, accountValue) ==
  {e \in db : ~(e.user = user /\ e.timeMs = timeMs)}
    \cup {[user |-> user, timeMs |-> timeMs, accountValue |-> accountValue]}

\* no response recorded
NoResp == [kind |-> "none"]

\* fill.tid || `${user}-${fill.timeMs}-${fill.coin}-${fill.sz}`
FillKey(user, fill) ==
  IF fill.tid # NoTid THEN fill.tid ELSE <<user, fill.timeMs, fill.coin, fill.sz>>

\* prisma.fill.upsert on tid: a new row, or closedPnl / builderFee of the stored row
FillUpsert(db, user, fill) ==
  LET key == FillKey(user, fill)
  IN  IF \E g \in db : g.tid = key
        THEN {IF g.tid = key
                THEN [g EXCEPT !.closedPnl = fill.closedPnl, !.builderFee = fill.builderFee]
                ELSE g : g \in db}
        ELSE db \cup {[fill EXCEPT !.user = IF fill.user # "" THEN fill.user ELSE user,
                                   !.tid = key]}

RECURSIVE StoreFills(_, _, _)
StoreFills(db, user, fs) ==
  IF fs = <<>> THEN db ELSE StoreFills(FillUpsert(db, user, Head(fs)), user, Tail(fs))

\* the keys of fillsByCoin in insertion order: each coin at its first fill
RECURSIVE CoinOrder(_, _)
CoinOrder(seen, fs) ==
  IF fs = <<>> THEN seen
  ELSE IF \E i \in 1 .. Len(seen) : seen[i] = Head(fs).coin THEN CoinOrder(seen, Tail(fs))
  ELSE CoinOrder(Append(seen, Head(fs).coin), Tail(fs))

CoinFills(fs, coin) == SelectSeq(fs, LAMBDA f : f.coin = coin)

\* faulty variant: no parameter is ever taken as absent
missingNever(param) == FALSE

\* !user, !metric: an absent or empty parameter
missing(param) == param = ""

\* the caller that awaits a call of ingestUserFills: "call" a direct call, "post" the
\* handler of POST /ingest, "batch" the loop of ingestMultipleUsers with the users still
\* to come; failed (history) holds, for the loop, each user whose ingestion met a failure
\* together with that failure
Frame(caller, rest, failed) == [caller |-> caller, rest |-> rest, failed |-> failed]

Direct == Frame("call", <<>>, {})

FrameOf(t) == Frame(t.caller, t.rest, t.failed)

WithFrame(t, frame) ==
  [t EXCEPT !.caller = frame.caller, !.rest = frame.rest, !.failed = frame.failed]

Idle ==
  [pc |-> "idle", user |-> "", coin |-> NoCoin, fills |-> <<>>, groups |-> <<>>,
   sortedFills |-> <<>>, i |-> 0, netSize |-> 0, avgEntryPx |-> ZeroPx,
   currentLifecycleId |-> Null, hasBuilderFills |-> FALSE, hasNonBuilderFills |-> FALSE,
   base |-> [positions |-> {}, lifecycles |-> <<>>],
   caller |-> "call", rest |-> <<>>, failed |-> {}]

\* entry of reconstructPositionHistory(user, coin, coinFills) for the first coin of groups
EnterPass(user, fills, groups) ==
  [pc |-> "loop", user |-> user, coin |-> Head(groups), fills |-> fills,
   groups |-> Tail(groups), sortedFills |-> SortByTime(CoinFills(fills, Head(groups))),
   i |-> 0, netSize |-> 0, avgEntryPx |-> ZeroPx, currentLifecycleId |-> Null,
   hasBuilderFills |-> FALSE, hasNonBuilderFills |-> FALSE,
   base |-> [positions |-> positions, lifecycles |-> lifecycles],
   caller |-> "call", rest |-> <<>>, failed |-> {}]

\* an optional argument that was not passed
Absent == <<>>

\* no call of HyperliquidDatasource.getUserFills is in progress
NoFetch ==
  [pc |-> "idle", user |-> "", coin |-> NoCoin, fromMs |-> Absent, toMs |-> Absent,
   allFills |-> <<>>, endTime |-> 0, batchCount |-> 0, seenTids |-> {},
   consecutiveDuplicateBatches |-> 0, request |-> <<>>, skipped |-> FALSE,
   result |-> <<>>]

\* aborted holds the last pass that a failing write ended, if any: its input, the tables
\* at its start (base) and the tables it left
NoPass ==
  [user |-> "", coin |-> NoCoin, input |-> <<>>,
   base |-> [positions |-> {}, lifecycles |-> <<>>],
   result |-> [positions |-> {}, lifecycles |-> <<>>],
   aborted |-> <<>>]

Init ==
  /\ upstream = [u \in Accounts |-> <<>>]
  /\ fillsDb = {}
  /\ positions = {}
  /\ lifecycles = <<>>
  /\ trk = [p \in Workers |-> Idle]
  /\ ingests = 0
  /\ lcFills = <<>>
  /\ lastPass = NoPass
  /\ avgCall = <<>>
  /\ equity = [u \in Accounts |-> 0]
  /\ equityDb = {}
  /\ resp = NoResp
  /\ depositsDb = {}
  /\ fetch = NoFetch
  /\ dec = NoDec

TotalFills == LET RECURSIVE Sum(_)
                  Sum(S) == IF S = {} THEN 0
                            ELSE LET u == CHOOSE x \in S : TRUE
                                 IN  Len(upstream[u]) + Sum(S \ {u})
              IN  Sum(Accounts)

\* the venue executes one more fill of a user, not earlier than the user's last one;
\* a request in flight has its fills already (getUserFills returned), so the venue
\* moves between requests
\* sameMs: whether the fill may carry the time of the user's last one; withTid: whether
\* the venue gives the fill a tid
VenueFillOf(user, coins, sameMs, withTid, sides, sizesOf, prices, pnlsOf, builderFees) ==
  /\ resp = NoResp
  /\ TotalFills < MaxFills
  /\ \A p \in Workers : trk[p].pc = "idle"
  /\ LET h == upstream[user]
         lastMs == IF h = <<>> THEN 1 ELSE h[Len(h)].timeMs
     IN  \E timeMs \in (IF h = <<>> THEN {1}
                         ELSE {lastMs + 1} \cup {lastMs : same \in sameMs \cap {TRUE}}),
            coin \in coins, side \in sides, px \in prices, fee \in Fees,
            builderFee \in builderFees, hasTid \in withTid :
           \E sz \in sizesOf[side], closedPnl \in pnlsOf[side] :
             upstream' = [upstream EXCEPT ![user] = Append(h,
                            FillRec(IF hasTid THEN <<TotalFills + 1>> ELSE NoTid,
                                    user, coin, timeMs, side, sz, px, fee,
                                    closedPnl, builderFee))]
  /\ UNCHANGED <<dec, fetch, depositsDb, fillsDb, positions, lifecycles, trk, ingests, lcFills, lastPass, avgCall,
                 equity, equityDb, resp>>

\* fills of the one instrument of Coins
VenueFillWith(user, sameMs, withTid, sides, sizesOf, prices, pnlsOf, builderFees) ==
  VenueFillOf(user, Coins, sameMs, withTid, sides, sizesOf, prices, pnlsOf, builderFees)

\* fills with a tid, at the time of the last one or later
VenueFillFrom(user, sides, sizesOf, prices, pnlsOf, builderFees) ==
  VenueFillWith(user, {TRUE}, {TRUE}, sides, sizesOf, prices, pnlsOf, builderFees)

\* the fills of Spec vary in size and price and carry no closedPnl
VenueFill(user) ==
  VenueFillFrom(user, Sides, [side \in Sides |-> Sizes], Prices,
                [side \in Sides |-> {NoPnl}], BuilderFees)

\* ingestUserFills returns count, or throws, to the caller of frame after the given
\* failure ("none", "fills", "equity" or "write"): POST /ingest answers 200 with the count
\* or 500, the loop of ingestMultipleUsers logs and goes on, a direct caller takes over
ReturnTo(p, frame, user, failure, count) ==
  LET threw == failure \in {"fills", "write"}
  IN  IF frame.caller = "post"
        THEN /\ trk' = [trk EXCEPT ![p] = Idle]
             /\ resp' = IF threw
                          THEN [kind |-> "ingest", q |-> [user |-> user], status |-> 500,
                                failure |-> failure]
                          ELSE [kind |-> "ingest", q |-> [user |-> user], status |-> 200,
                                body |-> [fillsIngested |-> count], failure |-> failure]
      ELSE IF frame.caller = "batch"
        THEN /\ trk' = [trk EXCEPT ![p] =
                          [WithFrame(Idle, frame) EXCEPT
                             !.pc = "batch",
                             !.failed = IF failure = "none" THEN frame.failed
                                        ELSE frame.failed \cup {<<user, failure>>}]]
             /\ UNCHANGED resp
      ELSE /\ trk' = [trk EXCEPT ![p] = Idle]
           /\ UNCHANGED resp

\* ingestUserFills(user, coin) for the caller of frame, up to the first pass: fetch, store
\* the fills, group by coin; sourceUp tells whether the fill source answers
IngestCall(p, frame, user, coin, sourceUp) ==
  /\ ingests < MaxIngest
  /\ ingests' = ingests + 1
  /\ IF ~sourceUp
       THEN /\ UNCHANGED fillsDb
            /\ ReturnTo(p, frame, user, "fills", 0)
       ELSE LET fills == getUserFills(user, coin)
            IN  IF Len(fills) = 0
                  THEN /\ UNCHANGED fillsDb
                       /\ ReturnTo(p, frame, user, "none", 0)
                  ELSE /\ fillsDb' = StoreFills(fillsDb, user, fills)
                       /\ trk' = [trk EXCEPT ![p] =
                                    WithFrame(EnterPass(user, fills, CoinOrder(<<>>, fills)),
                                              frame)]
                       /\ UNCHANGED resp
  /\ UNCHANGED <<dec, fetch, depositsDb, upstream, positions, lifecycles, lcFills, lastPass, avgCall,
                 equity, equityDb>>

\* a direct call of ingestUserFills on a fill source that answers; requests are served
\* one after the other
IngestStart(p, user, coin) ==
  /\ resp = NoResp
  /\ trk[p].pc = "idle"
  /\ \A q \in Workers : trk[q].pc = "idle"
  /\ IngestCall(p, Direct, user, coin, TRUE)

\* a call of ingestUserFills that arrives while another ingestion of the same user is
\* between two of its awaited writes (POST /ingest during the start-up ingestion)
IngestDuring(p, user, coin) ==
  /\ resp = NoResp
  /\ trk[p].pc = "idle"
  /\ \E q \in Workers \ {p} : trk[q].pc = "loop" /\ trk[q].user = user
  /\ IngestCall(p, Direct, user, coin, TRUE)

\* one iteration of the loop of reconstructPositionHistory
Step(p) ==
  /\ trk[p].pc = "loop"
  /\ trk[p].i < Len(trk[p].sortedFills)
  /\ LET t == trk[p]
         m == ProcessFill([netSize |-> t.netSize, avgEntryPx |-> t.avgEntryPx,
                           currentLifecycleId |-> t.currentLifecycleId,
                           hasBuilderFills |-> t.hasBuilderFills,
                           hasNonBuilderFills |-> t.hasNonBuilderFills,
                           positions |-> positions, lifecycles |-> lifecycles,
                           lcFills |-> lcFills],
                          t.user, t.coin, t.sortedFills[t.i + 1])
     IN  /\ positions' = m.positions
         /\ lifecycles' = m.lifecycles
         /\ lcFills' = m.lcFills
         /\ trk' = [trk EXCEPT ![p] = [t EXCEPT !.i = t.i + 1, !.netSize = m.netSize,
                                         !.avgEntryPx = m.avgEntryPx,
                                         !.currentLifecycleId = m.currentLifecycleId,
                                         !.hasBuilderFills = m.hasBuilderFills,
                                         !.hasNonBuilderFills = m.hasNonBuilderFills]]
  /\ UNCHANGED <<dec, fetch, depositsDb, upstream, fillsDb, ingests, lastPass, avgCall, equity, equityDb, resp>>

\* the end of a pass: the update of a lifecycle left open, then the next coin or,
\* after the last one, the equity snapshot and the return; equityUp tells whether the
\* equity source answers (a failure is caught and logged)
PassEndWith(p, equityUp) ==
  /\ trk[p].pc = "loop"
  /\ trk[p].i = Len(trk[p].sortedFills)
  /\ LET t == trk[p]
         m == PassFinal([currentLifecycleId |-> t.currentLifecycleId,
                         hasBuilderFills |-> t.hasBuilderFills,
                         hasNonBuilderFills |-> t.hasNonBuilderFills,
                         lifecycles |-> lifecycles])
     IN  /\ lifecycles' = m.lifecycles
         /\ lastPass' = [user |-> t.user, coin |-> t.coin,
                         input |-> CoinFills(t.fills, t.coin), base |-> t.base,
                         result |-> [positions |-> positions, lifecycles |-> m.lifecycles],
                         aborted |-> lastPass.aborted]
         /\ IF t.groups = <<>>
              THEN /\ equityDb' = IF equityUp
                                     THEN EquityUpsert(equityDb, t.user, Now,
                                                       getUserEquity(t.user))
                                     ELSE equityDb
                   /\ ReturnTo(p, FrameOf(t), t.user,
                              IF equityUp THEN "none" ELSE "equity", Len(t.fills))
              ELSE /\ equityUp
                   /\ UNCHANGED <<equityDb, resp>>
                   /\ trk' = [trk EXCEPT ![p] =
                                [WithFrame(EnterPass(t.user, t.fills, t.groups), FrameOf(t))
                                   EXCEPT !.base = [positions |-> positions,
                                                    lifecycles |-> m.lifecycles]]]
  /\ UNCHANGED <<dec, fetch, depositsDb, upstream, fillsDb, positions, ingests, lcFills, avgCall, equity>>

\* the end of a pass with an equity source that answers
PassEnd(p) == PassEndWith(p, TRUE)

\* a write of reconstructPositionHistory fails: the writes of the iteration before it
\* are committed, the rejection leaves the loop and ingestUserFills rethrows it; or the
\* update after the loop fails
WriteFails(p) ==
  /\ trk[p].pc = "loop"
  /\ LET t == trk[p]
         atEnd == t.i = Len(t.sortedFills)
         stages == IF atEnd THEN <<>>
                   ELSE WriteStages([netSize |-> t.netSize, avgEntryPx |-> t.avgEntryPx,
                                     currentLifecycleId |-> t.currentLifecycleId,
                                     hasBuilderFills |-> t.hasBuilderFills,
                                     hasNonBuilderFills |-> t.hasNonBuilderFills,
                                     positions |-> positions, lifecycles |-> lifecycles],
                                    t.user, t.coin, t.sortedFills[t.i + 1])
     IN  /\ atEnd => t.currentLifecycleId # Null
         /\ \E k \in 0 .. (IF atEnd THEN 0 ELSE Len(stages) - 1) :
              LET left == IF k = 0 THEN [positions |-> positions, lifecycles |-> lifecycles]
                                   ELSE stages[k]
              IN  /\ positions' = left.positions
                  /\ lifecycles' = left.lifecycles
                  /\ lcFills' = IF Len(left.lifecycles) > Len(lifecycles)
                                  THEN Append(lcFills, <<t.sortedFills[t.i + 1]>>)
                                  ELSE lcFills
                  /\ lastPass' = [lastPass EXCEPT !.aborted =
                                    <<[user |-> t.user, coin |-> t.coin,
                                       input |-> CoinFills(t.fills, t.coin),
                                       base |-> t.base, left |-> left]>>]
         /\ ReturnTo(p, FrameOf(t), t.user, "write", 0)
  /\ UNCHANGED <<dec, fetch, depositsDb, upstream, fillsDb, ingests, avgCall, equity, equityDb>>

\* the start-up callback calls ingestMultipleUsers(config.testWallets)
BatchStart(p, users) ==
  /\ resp = NoResp
  /\ \A q \in Workers : trk[q].pc = "idle"
  /\ ingests + Len(users) <= MaxIngest
  /\ trk' = [trk EXCEPT ![p] =
               [WithFrame(Idle, Frame("batch", users, {})) EXCEPT !.pc = "batch"]]
  /\ UNCHANGED <<dec, fetch, depositsDb, upstream, fillsDb, positions, lifecycles, ingests, lcFills,
                 lastPass, avgCall, equity, equityDb, resp>>

\* one turn of the loop of ingestMultipleUsers: the call of ingestUserFills for the next
\* user, or after the last user the log line and the return
BatchNext(p, sourceUp) ==
  /\ trk[p].pc = "batch"
  /\ resp = NoResp
  /\ LET t == trk[p]
     IN  IF t.rest = <<>>
           THEN /\ sourceUp
                /\ trk' = [trk EXCEPT ![p] = Idle]
                /\ resp' = [kind |-> "ingestMultipleUsers", outcome |-> "complete",
                            failed |-> t.failed]
                /\ UNCHANGED <<dec, fetch, depositsDb, upstream, fillsDb, positions, lifecycles, ingests,
                               lcFills, lastPass, avgCall, equity, equityDb>>
           ELSE IngestCall(p, Frame("batch", Tail(t.rest), t.failed), Head(t.rest), NoCoin,
                           sourceUp)

Next ==
  \/ \E user \in Users : VenueFill(user)
  \/ \E p \in Procs, user \in Users, coin \in Coins \cup {NoCoin} : IngestStart(p, user, coin)
  \/ \E p \in Procs : Step(p)
  \/ \E p \in Procs : PassEnd(p)

Spec == Init /\ [][Next]_vars


\* --------------------------------------------- calculateAvgEntryPx alone
AvgPrices == {50000, 51000, 52000, 53000}

\* one call of calculateAvgEntryPx on a position the tracker can hold (flat at price 0,
\* or long / short at a positive price) and a fill of non-zero size
AvgCall ==
  /\ \E oldSize \in (0 - MaxAvgSz) .. MaxAvgSz,
        oldAvgPx \in AvgPrices \cup {0},
        fillSize \in ((0 - MaxAvgSz) .. MaxAvgSz) \ {0},
        fillPx \in AvgPrices :
       /\ (oldSize = 0) <=> (oldAvgPx = 0)
       /\ avgCall' = [oldSize |-> oldSize, oldAvgPx |-> Rat(oldAvgPx),
                      fillSize |-> fillSize, fillPx |-> fillPx,
                      result |-> calculateAvgEntryPx(oldSize, Rat(oldAvgPx), fillSize, fillPx)]
  /\ UNCHANGED <<dec, fetch, depositsDb, upstream, fillsDb, positions, lifecycles, trk, ingests, lcFills, lastPass,
                 equity, equityDb, resp>>

NextAvg == AvgCall

SpecAvg == Init /\ [][NextAvg]_vars


\* every order of the elements of a sequence
PermSeqs(s) ==
  {[i \in 1 .. Len(s) |-> s[f[i]]] : f \in Permutations(1 .. Len(s))}

\* ------------------------------------------------------------ read routes
NoUser == ""

\* an absent fromMs / toMs
NoMs == 0

\* an optional maxStartCapital: <<>> when absent, <<c>> when the request carries c
NoCap == <<>>

Metrics == {"volume", "pnl", "returnPct"}
Caps == {NoCap, <<10000>>, <<0 - 1>>}
QueryCoins == {NoCoin}
QueryTimes == {NoMs} \cup (2 .. MaxQueryMs)
ClosedPnls == {NoPnl, <<5000>>}

\* request.query of the read routes
Query(user, coin, fromMs, toMs, builderOnly, maxStartCapital, metric) ==
  [user |-> user, coin |-> coin, fromMs |-> fromMs, toMs |-> toMs,
   builderOnly |-> builderOnly, maxStartCapital |-> maxStartCapital, metric |-> metric]

\* where.timeMs of the fill and position queries: the object literal spreads
\* { timeMs: { gte } } and then { timeMs: { lte } }, and the later key replaces the earlier
TimeWhere(q, timeMs) ==
  IF q.toMs # NoMs THEN timeMs <= q.toMs
  ELSE IF q.fromMs # NoMs THEN timeMs >= q.fromMs
  ELSE TRUE

\* the where clause of the fill and position queries of a user
RowWhere(q, row) ==
  /\ row.user = q.user
  /\ q.coin # NoCoin => row.coin = q.coin
  /\ TimeWhere(q, row.timeMs)

\* faulty variant: only lifecycles that start inside the range are fetched
LifecycleWhereStartedInside(q, user, lc) ==
  /\ lc.user = user
  /\ q.coin # NoCoin => lc.coin = q.coin
  /\ q.fromMs # NoMs => lc.startMs >= q.fromMs
  /\ q.toMs # NoMs => lc.startMs <= q.toMs

\* the where clause of the lifecycle query of the read routes
LifecycleWhere(q, user, lc) ==
  /\ lc.user = user
  /\ q.coin # NoCoin => lc.coin = q.coin
  /\ q.fromMs # NoMs => \/ lc.startMs >= q.fromMs
                        \/ (lc.endMs # Null /\ lc.endMs >= q.fromMs)
                        \/ lc.endMs = Null
  /\ q.toMs # NoMs => lc.startMs <= q.toMs

\* the lifecycle rows of a query by ascending id; the query names no order, so the
\* storage may return any order of them
FindLifecycles(q, user) == SelectSeq(lifecycles, LAMBDA lc : LifecycleWhere(q, user, lc))

\* orderBy timeMs asc of a set of rows; rows of one timeMs in a fixed order
RECURSIVE OrderByTime(_)
OrderByTime(S) ==
  IF S = {} THEN <<>>
  ELSE LET x == CHOOSE x \in S : \A y \in S : x.timeMs <= y.timeMs
       IN  <<x>> \o OrderByTime(S \ {x})

\* timeMs >= range.start && (range.end === null || timeMs <= range.end)
InRange(timeMs, lc) ==
  timeMs >= lc.startMs /\ (lc.endMs = Null \/ timeMs <= lc.endMs)

\* lifecycle.hasBuilderFills && lifecycle.hasNonBuilderFills
isLifecycleTainted(lc) == lc.hasBuilderFills /\ lc.hasNonBuilderFills

\* ---- GET /v1/trades
\* faulty variant: only the builder fee decides
TradesFilterFeeOnly(fills, lcs) ==
  SelectSeq(fills, LAMBDA fill : fill.builderFee > 0)

\* faulty variant: the builder fee is not tested
TradesFilterNoFeeTest(fills, lcs) ==
  SelectSeq(fills, LAMBDA fill :
    \A k \in 1 .. Len(lcs) :
      (isLifecycleTainted(lcs[k]) /\ lcs[k].coin = fill.coin)
        => ~InRange(fill.timeMs, lcs[k]))

\* faulty variant: the tainted ranges are not kept per coin
TradesFilterAnyCoin(fills, lcs) ==
  SelectSeq(fills, LAMBDA fill :
    /\ fill.builderFee > 0
    /\ \A k \in 1 .. Len(lcs) :
         isLifecycleTainted(lcs[k]) => ~InRange(fill.timeMs, lcs[k]))

\* taintedRanges and fills.filter of the trades route
TradesFilter(fills, lcs) ==
  SelectSeq(fills, LAMBDA fill :
    /\ fill.builderFee > 0
    /\ \A k \in 1 .. Len(lcs) :
         (isLifecycleTainted(lcs[k]) /\ lcs[k].coin = fill.coin)
           => ~InRange(fill.timeMs, lcs[k]))

TradeView(fill) ==
  [timeMs |-> fill.timeMs, coin |-> fill.coin, side |-> fill.side, px |-> fill.px,
   sz |-> fill.sz, fee |-> fill.fee,
   closedPnl |-> IF fill.closedPnl = NoPnl THEN 0 ELSE fill.closedPnl[1],
   builder |-> IF fill.builderFee > 0 THEN "attributed" ELSE "undefined"]

\* the trades handler on the lifecycle rows lcs in the order the storage returned them;
\* rows are the fills behind the body
getTrades(q, lcs) ==
  IF missing(q.user) THEN [kind |-> "trades", q |-> q, status |-> 400]
  ELSE LET found == OrderByTime({f \in fillsDb : RowWhere(q, f)})
           fills == IF q.builderOnly THEN TradesFilter(found, lcs) ELSE found
       IN  [kind |-> "trades", q |-> q, status |-> 200, rows |-> fills,
            body |-> [i \in 1 .. Len(fills) |-> TradeView(fills[i])]]

\* ---- GET /v1/positions/history
\* taintedRanges and positions.filter of the positions route: the first range that
\* holds the timestamp decides
PositionsFilter(found, lcs) ==
  SelectSeq(found, LAMBDA position :
    LET holds == {k \in 1 .. Len(lcs) : /\ lcs[k].coin = position.coin
                                        /\ InRange(position.timeMs, lcs[k])}
    IN  /\ holds # {}
        /\ ~isLifecycleTainted(lcs[CHOOSE k \in holds : \A j \in holds : k <= j]))

PositionView(position, builderOnly) ==
  [timeMs |-> position.timeMs, netSize |-> position.netSize,
   avgEntryPx |-> position.avgEntryPx,
   tainted |-> IF builderOnly THEN "false" ELSE "undefined"]

getPositions(q, lcs) ==
  IF missing(q.user) THEN [kind |-> "positions", q |-> q, status |-> 400]
  ELSE LET found == OrderByTime({s \in positions : RowWhere(q, s)})
           kept == IF q.builderOnly THEN PositionsFilter(found, lcs) ELSE found
       IN  [kind |-> "positions", q |-> q, status |-> 200, rows |-> kept,
            body |-> [i \in 1 .. Len(kept) |-> PositionView(kept[i], q.builderOnly)]]

\* ---- GET /v1/pnl
\* faulty variant: only the builder fee decides
PnlFilterFeeOnly(fills, lcs) ==
  SelectSeq(fills, LAMBDA fill : fill.builderFee > 0)

\* taintedRanges and fills.filter of the pnl route
PnlFilter(fills, lcs) ==
  SelectSeq(fills, LAMBDA fill :
    /\ fill.builderFee > 0
    /\ \A k \in 1 .. Len(lcs) :
         (isLifecycleTainted(lcs[k]) /\ lcs[k].coin = fill.coin)
           => ~InRange(fill.timeMs, lcs[k]))

\* a fraction n / d, d # 0, in lowest terms with a positive denominator
SignedFrac(n, d) ==
  LET g == GCD(Abs(n), Abs(d))
      sgn == IF d < 0 THEN 0 - 1 ELSE 1
  IN  <<sgn * (n \div g), Abs(d) \div g>>

DivisionByZero == <<>>

\* decimal.divide
divide(a, b) == IF b = 0 THEN DivisionByZero ELSE SignedFrac(a, b)

\* Math.min
Min(a, b) == IF a <= b THEN a ELSE b

\* faulty variant: a closedPnl is added for every fill, an absent one as 5000
SumClosedPnlDefault(fills) ==
  IF fills = <<>> THEN 0 ELSE 5000 * Len(fills)

\* the loop adding closedPnl of the fills that carry one
RECURSIVE SumClosedPnl(_)
SumClosedPnl(fills) ==
  IF fills = <<>> THEN 0
  ELSE (IF Head(fills).closedPnl # NoPnl THEN Head(fills).closedPnl[1] ELSE 0)
         + SumClosedPnl(Tail(fills))

RECURSIVE SumFee(_)
SumFee(fills) ==
  IF fills = <<>> THEN 0 ELSE Head(fills).fee + SumFee(Tail(fills))

\* equitySnapshot.findFirst where timeMs <= fromMs orderBy timeMs desc, 0 without a row
equityAtFromMs(user, fromMs) ==
  LET rows == {e \in equityDb : e.user = user /\ e.timeMs <= fromMs}
  IN  IF rows = {} THEN 0
      ELSE (CHOOSE e \in rows : \A x \in rows : x.timeMs <= e.timeMs).accountValue

\* faulty variant: the capital is the equity, whatever the cap
effectiveCapitalUncapped(equityAt, maxStartCapital) == equityAt

\* maxStartCapital ? Math.min(equityAtFromMs, maxStartCapital) : equityAtFromMs
effectiveCapital(equityAt, maxStartCapital) ==
  IF maxStartCapital # NoCap /\ maxStartCapital[1] # 0
    THEN Min(equityAt, maxStartCapital[1])
    ELSE equityAt

\* the return of a realized PnL on the capital of the range start, as a fraction;
\* DivisionByZero when decimal.divide throws
returnPct(q, user, realizedPnl) ==
  IF q.fromMs # NoMs
    THEN LET equityAt == equityAtFromMs(user, q.fromMs)
         IN  IF equityAt > 0
               THEN LET quotient == divide(realizedPnl,
                                           effectiveCapital(equityAt, q.maxStartCapital))
                    IN  IF quotient = DivisionByZero THEN DivisionByZero
                        ELSE SignedFrac(quotient[1] * 100, quotient[2])
               ELSE <<0, 1>>
    ELSE <<0, 1>>

getPnl(q, lcs) ==
  IF missing(q.user) THEN [kind |-> "pnl", q |-> q, status |-> 400]
  ELSE LET found == OrderByTime({f \in fillsDb : RowWhere(q, f)})
           fills == IF q.builderOnly THEN PnlFilter(found, lcs) ELSE found
           isTainted == \E k \in 1 .. Len(lcs) : isLifecycleTainted(lcs[k])
           realizedPnl == SumClosedPnl(fills)
           pct == returnPct(q, q.user, realizedPnl)
       IN  IF pct = DivisionByZero THEN [kind |-> "pnl", q |-> q, status |-> 500]
           ELSE [kind |-> "pnl", q |-> q, status |-> 200, rows |-> fills,
                 body |-> [realizedPnl |-> realizedPnl, returnPct |-> pct,
                           feesPaid |-> SumFee(fills), tradeCount |-> Len(fills),
                           tainted |-> IF q.builderOnly
                                         THEN (IF isTainted THEN "true" ELSE "false")
                                         ELSE "undefined"]]

\* ---- GET /v1/leaderboard
\* the where clause of the fill query of the leaderboard: no user
BoardWhere(q, row) ==
  /\ q.coin # NoCoin => row.coin = q.coin
  /\ TimeWhere(q, row.timeMs)

\* the keys of userFills in insertion order: each user at its first fill
RECURSIVE UserOrder(_, _)
UserOrder(seen, fs) ==
  IF fs = <<>> THEN seen
  ELSE IF \E i \in 1 .. Len(seen) : seen[i] = Head(fs).user THEN UserOrder(seen, Tail(fs))
  ELSE UserOrder(Append(seen, Head(fs).user), Tail(fs))

\* filteredFills of a user of the leaderboard that is not skipped as tainted
BoardFilter(fills, lcs) ==
  SelectSeq(fills, LAMBDA fill :
    /\ fill.builderFee > 0
    /\ \A k \in 1 .. Len(lcs) :
         (isLifecycleTainted(lcs[k]) /\ lcs[k].coin = fill.coin)
           => ~InRange(fill.timeMs, lcs[k]))

RECURSIVE SumNotional(_)
SumNotional(fills) ==
  IF fills = <<>> THEN 0
  ELSE multiply(Head(fills).px, Head(fills).sz) + SumNotional(Tail(fills))

\* metricValue of the filtered fills of a user, as a fraction
BoardMetric(q, user, fills) ==
  IF q.metric = "volume" THEN <<SumNotional(fills), 1>>
  ELSE IF q.metric = "pnl" THEN <<SumClosedPnl(fills), 1>>
  ELSE IF q.metric = "returnPct" THEN returnPct(q, user, SumClosedPnl(fills))
  ELSE <<0, 1>>

\* let isTainted = false, set in builderOnly mode by a tainted lifecycle row of the query
BoardIsTainted(q, lcs) ==
  q.builderOnly /\ \E k \in 1 .. Len(lcs) : isLifecycleTainted(lcs[k])

\* faulty variant: the loop goes on with a tainted user
BoardSkipsNoUser(q, user, lcs) == FALSE

\* if (isTainted) continue, in the builderOnly block
BoardSkipsUser(q, user, lcs) ==
  q.builderOnly /\ BoardIsTainted(q, lcs)

\* one turn of the loop over the users: no entry, or the entry of the user
BoardEntry(q, user, userFillsList) ==
  LET lcs == IF q.builderOnly THEN FindLifecycles(q, user) ELSE <<>>
      filteredFills == IF q.builderOnly THEN BoardFilter(userFillsList, lcs)
                                        ELSE userFillsList
  IN  IF BoardSkipsUser(q, user, lcs) THEN <<>>
      ELSE IF Len(filteredFills) = 0 THEN <<>>
      ELSE <<[user |-> user, metricValue |-> BoardMetric(q, user, filteredFills),
              tradeCount |-> Len(filteredFills), tainted |-> BoardIsTainted(q, lcs),
              rows |-> filteredFills]>>

\* faulty variant: the fills of every user count for each user
RECURSIVE BoardDataAllFills(_, _, _)
BoardDataAllFills(q, users, fills) ==
  IF users = <<>> THEN <<>>
  ELSE BoardEntry(q, Head(users), fills) \o BoardDataAllFills(q, Tail(users), fills)

RECURSIVE BoardData(_, _, _)
BoardData(q, users, fills) ==
  IF users = <<>> THEN <<>>
  ELSE BoardEntry(q, Head(users), SelectSeq(fills, LAMBDA f : f.user = Head(users)))
         \o BoardData(q, Tail(users), fills)

\* a < b for fractions of positive denominator
FracLess(a, b) == a[1] * b[2] < b[1] * a[2]

\* insertion of e behind every entry whose metricValue is not smaller
RECURSIVE InsertByMetric(_, _)
InsertByMetric(s, e) ==
  IF s = <<>> THEN <<e>>
  ELSE IF FracLess(Head(s).metricValue, e.metricValue) THEN <<e>> \o s
  ELSE <<Head(s)>> \o InsertByMetric(Tail(s), e)

\* leaderboardData.sort((a, b) => b.metricValue - a.metricValue): stable, descending
RECURSIVE SortByMetric(_, _)
SortByMetric(acc, s) ==
  IF s = <<>> THEN acc ELSE SortByMetric(InsertByMetric(acc, Head(s)), Tail(s))

\* the leaderboard handler on the fill rows in the order the storage returned them;
\* rows are the fills behind each entry of the body, by time
getLeaderboard(q, fills) ==
  IF missing(q.metric) THEN [kind |-> "leaderboard", q |-> q, status |-> 400]
  ELSE LET data == BoardData(q, UserOrder(<<>>, fills), fills)
           bad == \E i \in 1 .. Len(data) : data[i].metricValue = DivisionByZero
           sorted == IF bad THEN <<>> ELSE SortByMetric(<<>>, data)
       IN  IF bad THEN [kind |-> "leaderboard", q |-> q, status |-> 500]
           ELSE [kind |-> "leaderboard", q |-> q, status |-> 200,
                 rows |-> [i \in 1 .. Len(sorted) |->
                             OrderByTime({sorted[i].rows[k] : k \in 1 .. Len(sorted[i].rows)})],
                 body |-> [i \in 1 .. Len(sorted) |->
                             [rank |-> i, user |-> sorted[i].user,
                              metricValue |-> sorted[i].metricValue,
                              tradeCount |-> sorted[i].tradeCount,
                              tainted |-> sorted[i].tainted]]]

\* ---- GET /v1/deposits
\* prisma.deposit.upsert on (user, timeMs)
DepositUpsert(db, user, deposit) ==
  {d \in db : ~(d.user = user /\ d.timeMs = deposit.timeMs)}
    \cup {[user |-> user, timeMs |-> deposit.timeMs, amount |-> deposit.amount,
           txHash |-> deposit.txHash]}

RECURSIVE StoreDeposits(_, _, _)
StoreDeposits(db, user, deposits) ==
  IF deposits = <<>> THEN db
  ELSE StoreDeposits(DepositUpsert(db, user, Head(deposits)), user, Tail(deposits))

\* orderBy timeMs desc of a set of deposit rows of one user
RECURSIVE OrderByTimeDesc(_)
OrderByTimeDesc(S) ==
  IF S = {} THEN <<>>
  ELSE LET x == CHOOSE x \in S : \A y \in S : x.timeMs >= y.timeMs
       IN  <<x>> \o OrderByTimeDesc(S \ {x})

RECURSIVE SumAmount(_)
SumAmount(deposits) ==
  IF deposits = <<>> THEN 0 ELSE add(Head(deposits).amount, SumAmount(Tail(deposits)))

\* what getUserDeposits may return: the deposits of the venue's ledger for the user
LedgerAnswers ==
  {<<>>, <<[timeMs |-> 1, amount |-> 100, txHash |-> "h1"]>>,
   <<[timeMs |-> 1, amount |-> 100, txHash |-> "h1"],
     [timeMs |-> 2, amount |-> 50, txHash |-> "h2"]>>}

\* the deposits handler on the answer of the datasource (ledgerUp: whether it answers):
\* the response and the table deposits it leaves
getDeposits(q, ledgerUp, answer) ==
  IF missing(q.user)
    THEN [resp |-> [kind |-> "deposits", q |-> q, status |-> 400], depositsDb |-> depositsDb]
  ELSE IF ~ledgerUp
    THEN [resp |-> [kind |-> "deposits", q |-> q, status |-> 500], depositsDb |-> depositsDb]
  ELSE LET stored == OrderByTimeDesc({d \in depositsDb : /\ d.user = q.user
                                                         /\ TimeWhere(q, d.timeMs)})
           deposits == IF Len(answer) = 0
                         THEN [i \in 1 .. Len(stored) |->
                                 [timeMs |-> stored[i].timeMs, amount |-> stored[i].amount,
                                  txHash |-> stored[i].txHash]]
                         ELSE answer
       IN  [resp |-> [kind |-> "deposits", q |-> q, status |-> 200,
                      body |-> [totalDeposits |-> SumAmount(deposits),
                                depositCount |-> Len(deposits), deposits |-> deposits]],
            depositsDb |-> IF Len(answer) = 0 THEN depositsDb
                           ELSE StoreDeposits(depositsDb, q.user, answer)]

\* ---- the read routes as requests between ingestions
\* the fills of the read specification: unit buys, sells of any size with a closedPnl,
\* one price
VenueFillRead(user) ==
  VenueFillFrom(user, Sides, [side \in Sides |-> IF side = "A" THEN Sizes ELSE {1}], {50000},
                [side \in Sides |-> IF side = "A" THEN {<<5000>>} ELSE {NoPnl}], BuilderFees)

\* the venue credits the account: its account value grows
VenueEquity(user) ==
  /\ resp = NoResp
  /\ \A p \in Workers : trk[p].pc = "idle"
  /\ \E v \in Equities : v > equity[user] /\ equity' = [equity EXCEPT ![user] = v]
  /\ UNCHANGED <<dec, fetch, depositsDb, upstream, fillsDb, positions, lifecycles, trk, ingests, lcFills, lastPass,
                 avgCall, equityDb, resp>>

\* the orders in which the storage may return the lifecycle rows of a builderOnly query
LifecycleOrders(q) ==
  IF q.builderOnly THEN PermSeqs(FindLifecycles(q, q.user)) ELSE {<<>>}

\* the orders in which the storage may return the fill rows of the leaderboard query,
\* which names no order
FillOrders(q) == PermSeqs(OrderByTime({f \in fillsDb : BoardWhere(q, f)}))

\* reply.send of a read handler
Reply(r) ==
  /\ resp = NoResp
  /\ resp' = r
  /\ UNCHANGED <<dec, fetch, depositsDb, upstream, fillsDb, positions, lifecycles, trk, ingests, lcFills, lastPass,
                 avgCall, equity, equityDb>>

\* a read request served while no ingestion runs
Respond(r) ==
  /\ \A p \in Workers : trk[p].pc = "idle"
  /\ Reply(r)

\* a read request served at any moment, also between two awaited writes of an ingestion
TradesDuring(q) == \E lcs \in LifecycleOrders(q) : Reply(getTrades(q, lcs))

PositionsDuring(q) == \E lcs \in LifecycleOrders(q) : Reply(getPositions(q, lcs))

PnlDuring(q) == \E lcs \in LifecycleOrders(q) : Reply(getPnl(q, lcs))

LeaderboardDuring(q) == \E fills \in FillOrders(q) : Reply(getLeaderboard(q, fills))

GetTrades(q) == \E lcs \in LifecycleOrders(q) : Respond(getTrades(q, lcs))

GetPositions(q) == \E lcs \in LifecycleOrders(q) : Respond(getPositions(q, lcs))

GetPnl(q) == \E lcs \in LifecycleOrders(q) : Respond(getPnl(q, lcs))

GetLeaderboard(q) == \E fills \in FillOrders(q) : Respond(getLeaderboard(q, fills))

GetDeposits(q) ==
  /\ \A p \in Workers : trk[p].pc = "idle"
  /\ resp = NoResp
  /\ \E ledgerUp \in BOOLEAN, answer \in LedgerAnswers :
       LET r == getDeposits(q, ledgerUp, answer)
       IN  /\ resp' = r.resp
           /\ depositsDb' = r.depositsDb
  /\ UNCHANGED <<dec, fetch, upstream, fillsDb, positions, lifecycles, trk, ingests, lcFills, lastPass,
                 avgCall, equity, equityDb>>

\* POST /ingest with the body { user, coin }
PostIngest(p, user, coin, sourceUp) ==
  /\ resp = NoResp
  /\ \A q \in Workers : trk[q].pc = "idle"
  /\ IF missing(user)
       THEN /\ resp' = [kind |-> "ingest", q |-> [user |-> user], status |-> 400]
            /\ UNCHANGED <<dec, fetch, depositsDb, upstream, fillsDb, positions, lifecycles, trk, ingests,
                           lcFills, lastPass, avgCall, equity, equityDb>>
       ELSE IngestCall(p, Frame("post", <<>>, {}), user, coin, sourceUp)

\* the response is sent and the next request is served
Sent ==
  /\ resp # NoResp
  /\ resp' = NoResp
  /\ UNCHANGED <<dec, fetch, depositsDb, upstream, fillsDb, positions, lifecycles, trk, ingests, lcFills, lastPass,
                 avgCall, equity, equityDb>>

\* the requests without capital and metric parameters
RangeQueries ==
  {Query(user, coin, fromMs, toMs, builderOnly, NoCap, "") :
     user \in Users, coin \in QueryCoins, fromMs \in QueryTimes,
     toMs \in QueryTimes, builderOnly \in BOOLEAN}

NextRead ==
  \/ \E user \in Users : VenueFillRead(user)
  \/ \E p \in Procs, user \in Users, coin \in Coins \cup {NoCoin} : IngestStart(p, user, coin)
  \/ \E p \in Procs : Step(p)
  \/ \E p \in Procs : PassEnd(p)
  \/ \E q \in RangeQueries : GetTrades(q)
  \/ \E q \in RangeQueries : GetPositions(q)
  \/ \E q \in RangeQueries : GetPnl(q)
  \/ \E q \in RangeQueries, metric \in Metrics \ {"returnPct"} :
       GetLeaderboard([q EXCEPT !.user = NoUser, !.metric = metric])
  \/ Sent

SpecRead == Init /\ [][NextRead]_vars

\* ---- the return on capital: attributed buys with or without closedPnl, an account
\* value that moves, and requests with a capital cap
VenueFillRet(user) ==
  VenueFillFrom(user, {"B"}, [side \in Sides |-> {1}], {50000},
                [side \in Sides |-> ClosedPnls], {1})

NextRet ==
  \/ \E user \in Users : VenueFillRet(user)
  \/ \E user \in Users : VenueEquity(user)
  \/ \E p \in Procs, user \in Users, coin \in Coins \cup {NoCoin} : IngestStart(p, user, coin)
  \/ \E p \in Procs : Step(p)
  \/ \E p \in Procs : PassEnd(p)
  \/ \E q \in RangeQueries, cap \in Caps : GetPnl([q EXCEPT !.maxStartCapital = cap])
  \/ \E q \in RangeQueries, cap \in Caps :
       GetLeaderboard([q EXCEPT !.user = NoUser, !.maxStartCapital = cap,
                                !.metric = "returnPct"])
  \/ Sent

SpecRet == Init /\ [][NextRet]_vars

\* ---- the leaderboard over two accounts: unit buys at one price and distinct times,
\* with or without builder fee and closedPnl
VenueFillBoard(user) ==
  VenueFillWith(user, {FALSE}, {TRUE}, {"B"}, [side \in Sides |-> {1}], {50000},
                [side \in Sides |-> ClosedPnls], BuilderFees)

\* the leaderboard requests on the whole history
BoardQueries ==
  {Query(NoUser, NoCoin, NoMs, NoMs, builderOnly, NoCap, metric) :
     builderOnly \in BOOLEAN, metric \in Metrics \ {"returnPct"}}

NextBoard ==
  \/ \E user \in Accounts : VenueFillBoard(user)
  \/ \E p \in Procs, user \in Accounts : IngestStart(p, user, NoCoin)
  \/ \E p \in Procs : Step(p)
  \/ \E p \in Procs : PassEnd(p)
  \/ \E q \in BoardQueries : GetLeaderboard(q)
  \/ Sent

SpecBoard == Init /\ [][NextBoard]_vars

\* ---- requests with and without their required parameter
VenueFillReq(user) ==
  VenueFillWith(user, {FALSE}, {TRUE}, {"B"}, [side \in Sides |-> {1}], {50000},
                [side \in Sides |-> {NoPnl}], BuilderFees)

\* the requests on the whole history of a user, or of no user
UserQueries ==
  {Query(user, NoCoin, NoMs, NoMs, builderOnly, NoCap, "") :
     user \in Users \cup {NoUser}, builderOnly \in BOOLEAN}

NextReq ==
  \/ \E user \in Users : VenueFillReq(user)
  \/ \E p \in Procs, user \in Users \cup {NoUser} : PostIngest(p, user, NoCoin, TRUE)
  \/ \E p \in Procs : Step(p)
  \/ \E p \in Procs : PassEnd(p)
  \/ \E q \in UserQueries : GetTrades(q)
  \/ \E q \in UserQueries : GetPositions(q)
  \/ \E q \in UserQueries : GetPnl(q)
  \/ \E q \in UserQueries, metric \in {"", "volume"} :
       GetLeaderboard([q EXCEPT !.user = NoUser, !.metric = metric])
  \/ \E q \in UserQueries : GetDeposits(q)
  \/ Sent

SpecReq == Init /\ [][NextReq]_vars

\* ---- ingestion on sources and a storage that may fail: unit buys and sells at one
\* price and distinct times
VenueFillFail(user) ==
  VenueFillWith(user, {FALSE}, {TRUE}, Sides, [side \in Sides |-> {1}], {50000},
                [side \in Sides |-> {NoPnl}], BuilderFees)

\* config.testWallets
TestWallets == {<<"u1">>, <<"u1", "u2">>}

NextFail ==
  \/ \E user \in Accounts : VenueFillFail(user)
  \/ \E p \in Procs, user \in Users, sourceUp \in BOOLEAN :
       PostIngest(p, user, NoCoin, sourceUp)
  \/ \E p \in Procs, users \in TestWallets : BatchStart(p, users)
  \/ \E p \in Procs, sourceUp \in BOOLEAN : BatchNext(p, sourceUp)
  \/ \E p \in Procs : Step(p)
  \/ \E p \in Procs, equityUp \in BOOLEAN : PassEndWith(p, equityUp)
  \/ \E p \in Procs : WriteFails(p)
  \/ Sent

SpecFail == Init /\ [][NextFail]_vars

\* ---- builderOnly requests interleaved with an ingestion: unit buys and sells at one
\* price and distinct times
VenueFillMid(user) ==
  VenueFillWith(user, {FALSE}, {TRUE}, Sides, [side \in Sides |-> {1}], {50000},
                [side \in Sides |-> {NoPnl}], BuilderFees)

\* the builderOnly requests on the whole history of a user
BuilderQueries ==
  {Query(user, NoCoin, NoMs, NoMs, TRUE, NoCap, "") : user \in Users}

NextMid ==
  \/ \E user \in Users : VenueFillMid(user)
  \/ \E p \in Procs, user \in Users : IngestStart(p, user, NoCoin)
  \/ \E p \in Procs : Step(p)
  \/ \E p \in Procs : PassEnd(p)
  \/ \E q \in BuilderQueries : TradesDuring(q)
  \/ \E q \in BuilderQueries : PositionsDuring(q)
  \/ \E q \in BuilderQueries : PnlDuring(q)
  \/ \E q \in BuilderQueries :
       LeaderboardDuring([q EXCEPT !.user = NoUser, !.metric = "volume"])
  \/ Sent

SpecMid == Init /\ [][NextMid]_vars

\* ---- two ingestions of one account at once: the venue's fills (unit buys and sells at
\* one price and distinct times) are all executed before the first ingestion starts, and
\* the second ingestion starts while the first one runs
VenueFillConc(user) ==
  /\ ingests = 0
  /\ VenueFillWith(user, {FALSE}, {TRUE}, Sides, [side \in Sides |-> {1}], {50000},
                   [side \in Sides |-> {NoPnl}], BuilderFees)

IngestFirst(p, user) ==
  /\ ingests = 0
  /\ IngestStart(p, user, NoCoin)

NextConc ==
  \/ \E user \in Users : VenueFillConc(user)
  \/ \E p \in Workers, user \in Users : IngestFirst(p, user)
  \/ \E p \in Workers, user \in Users : IngestDuring(p, user, NoCoin)
  \/ \E p \in Workers : Step(p)
  \/ \E p \in Workers : PassEnd(p)

SpecConc == Init /\ [][NextConc]_vars

\* ------------------------- HyperliquidDatasource.getUserFills page by page
FetchCoins == {"BTC", "ETH"}

\* a fill as the venue's /info endpoint returns it (HLFill)
HLFills ==
  [coin : FetchCoins, px : {50000}, sz : {1}, side : {"B"}, dir : {"Open Long"},
   time : 1 .. MaxFetchMs, closedPnl : {0}, fee : {2}, tid : 1 .. MaxTid,
   builderFee : {0}]

\* response.data of one request: any page of at most FullBatch fills
Pages == UNION {[1 .. n -> HLFills] : n \in 0 .. FullBatch}

\* Number.prototype.toString: the decimal text of the id, one text per number
TidString(tid) == <<tid>>

\* a || b on an optional number: b when a is absent or 0
OrElse(opt, default) == IF opt = Absent THEN default ELSE IF opt[1] = 0 THEN default ELSE opt[1]

\* Date.now() during the call: later than every fill the venue can return
FetchNow == MaxFetchMs + 1

normalizeFill(hlFill, user) ==
  FillRec(TidString(hlFill.tid), user, hlFill.coin, hlFill.time,
          IF hlFill.side = "A" \/ hlFill.dir = "Close Long" \/ hlFill.dir = "Open Short"
            THEN "A" ELSE "B",
          hlFill.sz, hlFill.px, hlFill.fee, hlFill.closedPnl, hlFill.builderFee)

\* faulty variant: every fill of the page is taken as new
RECURSIVE newUniqueFillsAll(_, _)
newUniqueFillsAll(fills, seenTids) ==
  IF fills = <<>> THEN <<>>
  ELSE <<Head(fills)>> \o newUniqueFillsAll(Tail(fills), seenTids)

\* fills.filter over seenTids: the fills of the page whose tid was not seen before, in
\* the page or in an earlier one
RECURSIVE newUniqueFills(_, _)
newUniqueFills(fills, seenTids) ==
  IF fills = <<>> THEN <<>>
  ELSE LET tid == TidString(Head(fills).tid)
       IN  IF tid \in seenTids
             THEN newUniqueFills(Tail(fills), seenTids)
             ELSE <<Head(fills)>> \o newUniqueFills(Tail(fills), seenTids \cup {tid})

RECURSIVE MapNormalize(_, _)
MapNormalize(fills, user) ==
  IF fills = <<>> THEN <<>>
  ELSE <<normalizeFill(Head(fills), user)>> \o MapNormalize(Tail(fills), user)

\* the request of batch batchCount
FetchRequest(batchCount, user, fromMs, toMs, endTime) ==
  IF batchCount = 1 /\ fromMs = Absent /\ toMs = Absent
    THEN [type |-> "userFills", user |-> user, startTime |-> Absent, endTime |-> Absent]
    ELSE [type |-> "userFillsByTime", user |-> user, startTime |-> <<OrElse(fromMs, 0)>>,
          endTime |-> <<endTime>>]

\* the statements behind the loop: coin filter, sort by time ascending
FetchResult(allFills, coin) ==
  LET filteredFills == IF coin # NoCoin THEN SelectSeq(allFills, LAMBDA f : f.coin = coin)
                       ELSE allFills
  IN  SortFrom(<<>>, filteredFills)

\* getUserFills(user, coin, fromMs, toMs) is called; every call starts from its own locals,
\* so one call is followed to its end
FetchStart(user, coin, fromMs, toMs) ==
  /\ fetch.pc = "idle"
  /\ fetch' = [NoFetch EXCEPT !.pc = "loop", !.user = user, !.coin = coin,
                              !.fromMs = fromMs, !.toMs = toMs,
                              !.endTime = OrElse(toMs, FetchNow)]
  /\ UNCHANGED <<dec, depositsDb, upstream, fillsDb, positions, lifecycles, trk, ingests,
                 lcFills, lastPass, avgCall, equity, equityDb, resp>>

\* one turn of the while loop on the page the venue answers with, and, when the loop
\* ends with it, the statements up to the return
FetchBatch(fills) ==
  /\ fetch.pc = "loop"
  /\ fetch.batchCount < maxBatches
  /\ LET batchCount == fetch.batchCount + 1
         request == FetchRequest(batchCount, fetch.user, fetch.fromMs, fetch.toMs,
                                 fetch.endTime)
         new == newUniqueFills(fills, fetch.seenTids)
         seen == fetch.seenTids \cup {TidString(fills[i].tid) : i \in 1 .. Len(fills)}
         allFills == fetch.allFills \o MapNormalize(new, fetch.user)
         dup == IF fills = <<>> THEN fetch.consecutiveDuplicateBatches
                ELSE IF new = <<>> THEN fetch.consecutiveDuplicateBatches + 1 ELSE 0
         oldestFillTime == fills[Len(fills)].time
         stop == \/ fills = <<>>
                 \/ new = <<>> /\ dup >= 3
                 \/ Len(fills) < FullBatch /\ new = <<>>
                 \/ OrElse(fetch.fromMs, 0) # 0 /\ oldestFillTime <= OrElse(fetch.fromMs, 0)
         after == [fetch EXCEPT !.batchCount = batchCount, !.request = request,
                                !.allFills = allFills, !.seenTids = seen,
                                !.consecutiveDuplicateBatches = dup,
                                !.skipped = fetch.skipped \/ Len(new) < Len(fills)]
     IN  IF stop \/ batchCount >= maxBatches
           THEN fetch' = [after EXCEPT !.pc = "done",
                                       !.result = FetchResult(allFills, fetch.coin)]
           ELSE fetch' = [after EXCEPT !.endTime = oldestFillTime - 1]
  /\ UNCHANGED <<dec, depositsDb, upstream, fillsDb, positions, lifecycles, trk, ingests,
                 lcFills, lastPass, avgCall, equity, equityDb, resp>>

\* client.post rejects: the catch block throws 'Failed to fetch user fills'
FetchThrows ==
  /\ fetch.pc = "loop"
  /\ fetch' = [fetch EXCEPT !.pc = "failed"]
  /\ UNCHANGED <<dec, depositsDb, upstream, fillsDb, positions, lifecycles, trk, ingests,
                 lcFills, lastPass, avgCall, equity, equityDb, resp>>

Optional(S) == {Absent} \cup {<<x>> : x \in S}

NextFetch ==
  \/ \E user \in Users, coin \in {NoCoin} \cup FetchCoins,
        fromMs \in Optional(0 .. MaxFetchMs), toMs \in Optional({MaxFetchMs}) :
       FetchStart(user, coin, fromMs, toMs)
  \/ \E fills \in Pages : FetchBatch(fills)
  \/ FetchThrows

SpecFetch == Init /\ [][NextFetch]_vars



\* ---- fills with and without tid: unit fills at two prices, several at one time
VenueFillKey(user) ==
  VenueFillWith(user, {TRUE, FALSE}, {TRUE, FALSE}, Sides, [side \in Sides |-> {1}], Prices,
                [side \in Sides |-> {NoPnl}], {0})

NextKey ==
  \/ \E user \in Users : VenueFillKey(user)
  \/ \E p \in Procs, user \in Users : IngestStart(p, user, NoCoin)
  \/ \E p \in Procs : Step(p)
  \/ \E p \in Procs : PassEnd(p)

SpecKey == Init /\ [][NextKey]_vars


\* ---- a pass over fills of fractional size: the size arithmetic and the lifecycle
\* transitions it decides
SizeTenths == 1 .. MaxTenths

\* one iteration of the loop on a fill of sz tenths: fillSize, newSize, the opening and
\* the closing test
DecFill(side, sz) ==
  /\ Len(dec.fills) < MaxDecFills
  /\ LET fillSize == IF side = "B" THEN parseFloat(sz) ELSE FloatNegate(parseFloat(sz))
         oldSize == dec.netSize
         newSize == FloatAdd(oldSize, fillSize)
         opens == FloatIsZero(oldSize) /\ ~FloatIsZero(newSize)
         cur1 == IF opens THEN dec.created + 1 ELSE dec.currentLifecycleId
         closes == ~FloatIsZero(oldSize) /\ FloatIsZero(newSize) /\ cur1 # Null
     IN  dec' = [fills |-> Append(dec.fills, [side |-> side, sz |-> sz]),
                 netSize |-> newSize,
                 exact |-> dec.exact + (IF side = "B" THEN sz ELSE 0 - sz),
                 currentLifecycleId |-> IF closes THEN Null ELSE cur1,
                 created |-> dec.created + (IF opens THEN 1 ELSE 0),
                 closed |-> dec.closed + (IF closes THEN 1 ELSE 0)]
  /\ UNCHANGED <<fetch, depositsDb, upstream, fillsDb, positions, lifecycles, trk, ingests,
                 lcFills, lastPass, avgCall, equity, equityDb, resp>>

\* the next call of reconstructPositionHistory starts from fresh locals
DecReturn ==
  /\ dec.fills # <<>>
  /\ dec' = NoDec
  /\ UNCHANGED <<fetch, depositsDb, upstream, fillsDb, positions, lifecycles, trk, ingests,
                 lcFills, lastPass, avgCall, equity, equityDb, resp>>

NextDec ==
  \/ \E side \in Sides, sz \in SizeTenths : DecFill(side, sz)
  \/ DecReturn

SpecDec == Init /\ [][NextDec]_vars


\* ---- two instruments: unit buys and sells of BTC and ETH at one price and distinct
\* times, ingested for one coin or for all, and builderOnly requests for one coin or all
TwoCoins == {"BTC", "ETH"}

VenueFillCoins(user) ==
  VenueFillOf(user, TwoCoins, {FALSE}, {TRUE}, Sides, [side \in Sides |-> {1}], {50000},
              [side \in Sides |-> {NoPnl}], BuilderFees)

CoinQueries ==
  {Query(user, coin, NoMs, NoMs, TRUE, NoCap, "") : user \in Users, coin \in TwoCoins \cup {NoCoin}}

NextCoins ==
  \/ \E user \in Users : VenueFillCoins(user)
  \/ \E p \in Procs, user \in Users, coin \in TwoCoins \cup {NoCoin} : IngestStart(p, user, coin)
  \/ \E p \in Procs : Step(p)
  \/ \E p \in Procs : PassEnd(p)
  \/ \E q \in CoinQueries : GetTrades(q)
  \/ \E q \in CoinQueries : GetPositions(q)
  \/ \E q \in CoinQueries : GetPnl(q)
  \/ Sent

SpecCoins == Init /\ [][NextCoins]_vars


\* ================================================================ claims
DistinctTimes(s) ==
  \A i, j \in 1 .. Len(s) : i # j => s[i].timeMs # s[j].timeMs

Times(s) == {s[i].timeMs : i \in 1 .. Len(s)}

SameKey(a, b) == a.user = b.user /\ a.coin = b.coin

IsOpen(lc) == lc.endMs = Null

\* the closed ranges [startMs, endMs] of two lifecycles meet, an open one being unbounded
Overlap(a, b) ==
  /\ IsOpen(b) \/ a.startMs <= b.endMs
  /\ IsOpen(a) \/ b.startMs <= a.endMs

AllIdle == \A p \in Workers : trk[p].pc = "idle"

\* C1: a pass that repeats the fill sequence of the previous pass of the same
\* (account, instrument) leaves exactly the snapshots and lifecycles the previous one left.
C1_RepeatLeavesSameRecords ==
  [][(/\ lastPass' # lastPass
      /\ lastPass.input # <<>>
      /\ lastPass'.input = lastPass.input
      /\ SameKey(lastPass', lastPass))
       => lastPass'.result = lastPass.result]_vars

\* C2 as stated: every permutation of the fill array of a pass, ties in timestamp
\* included, leaves the records the time-ordered array left.
C2_AnyPermutationSameRecords ==
  lastPass.input # <<>> =>
    \A perm \in PermSeqs(lastPass.input) :
      reconstructPositionHistory(lastPass.base, lastPass.user, lastPass.coin, perm)
        = lastPass.result

\* C2 amended: when the fills of the array have pairwise distinct timestamps, every
\* permutation of the array leaves the records the time-ordered array left.
C2_PermutationOfDistinctTimes ==
  (lastPass.input # <<>> /\ DistinctTimes(lastPass.input)) =>
    \A perm \in PermSeqs(lastPass.input) :
      reconstructPositionHistory(lastPass.base, lastPass.user, lastPass.coin, perm)
        = lastPass.result

\* a completed pass over at least two fills of distinct timestamps, the second a sell
C2_Witness ==
  /\ Len(lastPass.input) >= 2
  /\ DistinctTimes(lastPass.input)
  /\ lastPass.input[2].side = "A"

\* C3: no two stored lifecycles of one (account, instrument) have overlapping closed
\* ranges [startMs, endMs], an open lifecycle extending to infinity.
C3_LifecyclesDoNotOverlap ==
  \A i, j \in 1 .. Len(lifecycles) :
    (i # j /\ SameKey(lifecycles[i], lifecycles[j]))
      => ~Overlap(lifecycles[i], lifecycles[j])

\* C4: at most one stored lifecycle of each (account, instrument) is open.
C4_AtMostOneOpen ==
  \A i, j \in 1 .. Len(lifecycles) :
    (SameKey(lifecycles[i], lifecycles[j]) /\ IsOpen(lifecycles[i]) /\ IsOpen(lifecycles[j]))
      => i = j

\* C5 as stated: every closed lifecycle has startMs < endMs.
C5_ClosedStartsBeforeEnd ==
  \A i \in 1 .. Len(lifecycles) :
    ~IsOpen(lifecycles[i]) => lifecycles[i].startMs < lifecycles[i].endMs

\* C5 amended: every closed lifecycle has startMs <= endMs, and startMs < endMs when
\* its opening fill and its closing fill carry different timestamps.
C5_ClosedStartsNotAfterEnd ==
  \A i \in 1 .. Len(lifecycles) :
    ~IsOpen(lifecycles[i]) =>
      /\ lifecycles[i].startMs <= lifecycles[i].endMs
      /\ lcFills[i][1].timeMs # lcFills[i][Len(lcFills[i])].timeMs
           => lifecycles[i].startMs < lifecycles[i].endMs

\* a lifecycle of three fills, closed by a fill later than the one that opened it
C5_Witness ==
  \E i \in 1 .. Len(lifecycles) :
    /\ ~IsOpen(lifecycles[i])
    /\ Len(lcFills[i]) = 3
    /\ lcFills[i][1].timeMs < lcFills[i][3].timeMs
    /\ lifecycles[i].startMs < lifecycles[i].endMs

HasBuilder(fs) == \E k \in 1 .. Len(fs) : fs[k].builderFee > 0

HasNonBuilder(fs) == \E k \in 1 .. Len(fs) : ~(fs[k].builderFee > 0)

Tainted(lc) == lc.hasBuilderFills /\ lc.hasNonBuilderFills

\* C6: a stored lifecycle that processed no fill with a positive builder fee is not
\* tainted, one that processed only such fills is not tainted, and a tainted one
\* processed at least one fill of each kind.
C6_TaintNeedsBothKinds ==
  \A i \in 1 .. Len(lifecycles) :
    /\ ~HasBuilder(lcFills[i]) => ~Tainted(lifecycles[i])
    /\ ~HasNonBuilder(lcFills[i]) => ~Tainted(lifecycles[i])
    /\ Tainted(lifecycles[i]) => (HasBuilder(lcFills[i]) /\ HasNonBuilder(lcFills[i]))

\* after a completed pass: a closed, tainted lifecycle of three fills, opened by a builder fill
C6_Witness ==
  /\ AllIdle
  /\ \E i \in 1 .. Len(lifecycles) :
       /\ Tainted(lifecycles[i])
       /\ ~IsOpen(lifecycles[i])
       /\ Len(lcFills[i]) = 3
       /\ lcFills[i][1].builderFee > 0

\* the stored fills of the key of a lifecycle whose time lies in its interval
FillsInInterval(lc) ==
  {f \in fillsDb : /\ f.user = lc.user
                   /\ f.coin = lc.coin
                   /\ f.timeMs >= lc.startMs
                   /\ IsOpen(lc) \/ f.timeMs <= lc.endMs}

\* C7: after a completed pass, hasBuilderFills of a stored lifecycle is true iff a
\* stored fill of its (account, instrument) with timestamp in [startMs, endMs], or
\* >= startMs when open, has a positive builder fee, and hasNonBuilderFills iff such
\* a fill lacks one.
C7_FlagsMatchInterval ==
  AllIdle =>
    \A i \in 1 .. Len(lifecycles) :
      /\ lifecycles[i].hasBuilderFills
           <=> \E f \in FillsInInterval(lifecycles[i]) : f.builderFee > 0
      /\ lifecycles[i].hasNonBuilderFills
           <=> \E f \in FillsInInterval(lifecycles[i]) : ~(f.builderFee > 0)

Sign(x) == IF x > 0 THEN 1 ELSE IF x < 0 THEN 0 - 1 ELSE 0

\* C8: calculateAvgEntryPx returns 0 when the new size is 0, the fill price when the
\* old size is 0, the size-weighted mean when the fill has the sign of the old size,
\* the old price on a reduction that keeps the sign, and the fill price when the
\* position changes sign.
C8_AverageCostCases ==
  avgCall # <<>> =>
    LET old == avgCall.oldSize
        fs == avgCall.fillSize
        new == old + fs
        px == avgCall.fillPx
        avg == avgCall.oldAvgPx
        r == avgCall.result
    IN  /\ new = 0 => r = <<0, 1>>
        /\ (new # 0 /\ old = 0) => r = <<px, 1>>
        /\ (new # 0 /\ old # 0 /\ Sign(fs) = Sign(old))
             => r[1] * Abs(new) * avg[2] = r[2] * (Abs(old) * avg[1] + Abs(fs) * px * avg[2])
        /\ (new # 0 /\ old # 0 /\ Sign(fs) # Sign(old) /\ Sign(new) = Sign(old)) => r = avg
        /\ (new # 0 /\ old # 0 /\ Sign(new) # Sign(old)) => r = <<px, 1>>

SnapshotsOf(pos, user, coin) == {s \in pos : s.user = user /\ s.coin = coin}

\* the snapshots of the fills a pass has processed so far that the next fill leaves alone
KeepsEarlier(t, sameTimeToo) ==
  \A j \in 1 .. t.i :
    (sameTimeToo \/ t.sortedFills[j].timeMs # t.sortedFills[t.i + 1].timeMs) =>
      \A s \in SnapshotsOf(positions, t.user, t.coin) :
        s.timeMs = t.sortedFills[j].timeMs => s \in positions'

\* C9 as stated: a completed pass over n fills leaves n snapshots of its (account,
\* instrument), and no fill changes the snapshot of an earlier fill of its pass.
C9_OneSnapshotPerFill ==
  [][/\ lastPass' # lastPass =>
          Cardinality(SnapshotsOf(lastPass'.result.positions, lastPass'.user, lastPass'.coin))
            = Len(lastPass'.input)
     /\ \A p \in Procs :
          (trk[p].pc = "loop" /\ trk'[p].pc = "loop" /\ trk'[p].i = trk[p].i + 1)
            => KeepsEarlier(trk[p], TRUE)]_vars

\* C9 amended: a completed pass leaves exactly one snapshot for each distinct timestamp
\* of its fills (n snapshots when the n timestamps are pairwise distinct), and a fill
\* changes no snapshot of an earlier fill of its pass that has another timestamp.
C9_OneSnapshotPerTimestamp ==
  [][/\ lastPass' # lastPass =>
          /\ Cardinality({s \in SnapshotsOf(lastPass'.result.positions, lastPass'.user,
                                            lastPass'.coin) :
                            s.timeMs \in Times(lastPass'.input)})
               = Cardinality(Times(lastPass'.input))
          /\ \A k \in 1 .. Len(lastPass'.input) :
               Cardinality({s \in SnapshotsOf(lastPass'.result.positions, lastPass'.user,
                                              lastPass'.coin) :
                              s.timeMs = lastPass'.input[k].timeMs}) = 1
     /\ \A p \in Procs :
          (trk[p].pc = "loop" /\ trk'[p].pc = "loop" /\ trk'[p].i = trk[p].i + 1)
            => KeepsEarlier(trk[p], FALSE)]_vars

\* a completed pass over three fills, two of them at one timestamp, that left two snapshots
C9_Witness ==
  /\ Len(lastPass.input) = 3
  /\ Cardinality(Times(lastPass.input)) = 2
  /\ Cardinality(SnapshotsOf(lastPass.result.positions, lastPass.user, lastPass.coin)) = 2

RECURSIVE SignedSum(_)
SignedSum(fs) ==
  IF fs = <<>> THEN 0
  ELSE (IF Head(fs).side = "B" THEN Head(fs).sz ELSE 0 - Head(fs).sz) + SignedSum(Tail(fs))

\* C10: after each fill of a pass is processed, the snapshot at that fill's timestamp
\* holds netSize = the signed sum (buys added, sells subtracted) of the sizes of the
\* fills processed so far, which is also the running netSize of the pass.
C10_RunningNetSize ==
  \A p \in Procs :
    (trk[p].pc = "loop" /\ trk[p].i >= 1) =>
      LET t == trk[p]
          sum == SignedSum(SubSeq(t.sortedFills, 1, t.i))
      IN  /\ t.netSize = sum
          /\ \A s \in SnapshotsOf(positions, t.user, t.coin) :
               s.timeMs = t.sortedFills[t.i].timeMs => s.netSize = sum
          /\ \E s \in SnapshotsOf(positions, t.user, t.coin) :
               s.timeMs = t.sortedFills[t.i].timeMs

\* a pass that has processed a buy and two sells and stands short
C10_Witness ==
  \E p \in Procs :
    /\ trk[p].pc = "loop"
    /\ trk[p].i = 3
    /\ trk[p].netSize < 0
    /\ \E k \in 1 .. 3 : trk[p].sortedFills[k].side = "B"

\* the step of process p from the state to the next is one iteration of the loop
IsStep(p) == trk[p].pc = "loop" /\ trk'[p].pc = "loop" /\ trk'[p].i = trk[p].i + 1

\* C11: a pass creates a lifecycle exactly when a fill moves netSize from zero to
\* non-zero, with startMs = that fill's timestamp, endMs = null and flags set from that
\* fill alone; it sets endMs exactly when a fill returns netSize to zero, on the current
\* lifecycle and to that fill's timestamp; a lifecycle still open when the pass ends is
\* stored with endMs = null and the flags accumulated over its fills.
C11_LifecycleTransitions ==
  [][\A p \in Procs :
       /\ IsStep(p) =>
            LET t == trk[p]
                fill == t.sortedFills[t.i + 1]
                old == SignedSum(SubSeq(t.sortedFills, 1, t.i))
                new == SignedSum(SubSeq(t.sortedFills, 1, t.i + 1))
                n == Len(lifecycles)
            IN  /\ Len(lifecycles') = (IF old = 0 /\ new # 0 THEN n + 1 ELSE n)
                /\ Len(lifecycles') = n + 1 =>
                     /\ lifecycles'[n + 1].user = t.user
                     /\ lifecycles'[n + 1].coin = t.coin
                     /\ lifecycles'[n + 1].startMs = fill.timeMs
                     /\ lifecycles'[n + 1].endMs = Null
                     /\ lifecycles'[n + 1].hasBuilderFills = (fill.builderFee > 0)
                     /\ lifecycles'[n + 1].hasNonBuilderFills = ~(fill.builderFee > 0)
                /\ (old # 0 /\ new = 0)
                     <=> \E i \in 1 .. n : lifecycles'[i].endMs # lifecycles[i].endMs
                /\ \A i \in 1 .. n :
                     /\ lifecycles'[i].startMs = lifecycles[i].startMs
                     /\ lifecycles'[i].endMs # lifecycles[i].endMs =>
                          /\ i = t.currentLifecycleId
                          /\ lifecycles[i].endMs = Null
                          /\ lifecycles'[i].endMs = fill.timeMs
       /\ (trk[p].pc = "loop" /\ lastPass' # lastPass) =>
            LET t == trk[p]
                id == t.currentLifecycleId
            IN  /\ SignedSum(t.sortedFills) # 0 <=> id # Null
                /\ Len(lifecycles') = Len(lifecycles)
                /\ id # Null =>
                     /\ lifecycles'[id].endMs = Null
                     /\ lifecycles'[id].startMs = lcFills[id][1].timeMs
                     /\ lifecycles'[id].hasBuilderFills = HasBuilder(lcFills[id])
                     /\ lifecycles'[id].hasNonBuilderFills = HasNonBuilder(lcFills[id])]_vars

\* after a completed pass: a lifecycle closed by its second fill, later than its first,
\* and behind it a lifecycle left open
C11_Witness ==
  /\ AllIdle
  /\ \E i, j \in 1 .. Len(lifecycles) :
       /\ i < j
       /\ Len(lcFills[i]) = 2
       /\ lifecycles[i].startMs = lcFills[i][1].timeMs
       /\ lifecycles[i].endMs = lcFills[i][2].timeMs
       /\ lifecycles[i].startMs < lifecycles[i].endMs
       /\ IsOpen(lifecycles[j])
       /\ lifecycles[j].startMs = lcFills[j][1].timeMs


\* the response being served is a 200 of the route kind
Served(kind) == resp.kind = kind /\ resp.status = 200

RowSet(rows) == {rows[i] : i \in 1 .. Len(rows)}

\* the range a request asks for: fromMs <= timeMs <= toMs, each bound when supplied
InQueriedRange(q, timeMs) ==
  /\ q.fromMs # NoMs => timeMs >= q.fromMs
  /\ q.toMs # NoMs => timeMs <= q.toMs

\* the stored rows of the user and coin of a request inside the range it asks for
Queried(q, table) ==
  {r \in table : /\ r.user = q.user
                 /\ q.coin # NoCoin => r.coin = q.coin
                 /\ InQueriedRange(q, r.timeMs)}

\* the stored lifecycles of the (account, instrument) of a row whose interval
\* [startMs, endMs], unbounded when endMs is null, holds the timestamp of the row
LifecyclesAround(row) ==
  {k \in 1 .. Len(lifecycles) : /\ lifecycles[k].user = row.user
                                /\ lifecycles[k].coin = row.coin
                                /\ row.timeMs >= lifecycles[k].startMs
                                /\ IsOpen(lifecycles[k]) \/ row.timeMs <= lifecycles[k].endMs}

\* C12: with builderOnly, GET /v1/trades returns a stored fill of the queried range iff
\* its builder fee is > 0 and its timestamp lies in the interval of no tainted stored
\* lifecycle of its coin; a lifecycle that processed fills of both kinds contributes no
\* fill of the queried range.
C12_AttributedOnlyFills ==
  (Served("trades") /\ resp.q.builderOnly) =>
    /\ \A f \in Queried(resp.q, fillsDb) :
         f \in RowSet(resp.rows)
           <=> /\ f.builderFee > 0
               /\ \A k \in LifecyclesAround(f) : ~Tainted(lifecycles[k])
    /\ \A i \in 1 .. Len(lifecycles) :
         (lifecycles[i].user = resp.q.user /\ HasBuilder(lcFills[i])
            /\ HasNonBuilder(lcFills[i]))
           => \A k \in 1 .. Len(lcFills[i]) :
                InQueriedRange(resp.q, lcFills[i][k].timeMs)
                  => \A r \in RowSet(resp.rows) : r.tid # lcFills[i][k].tid

\* a builderOnly trade listing over a closed lifecycle of an attributed buy, an
\* unattributed buy and a sell, all three in the time range the request asks for
C12_Witness ==
  /\ Served("trades")
  /\ resp.q.builderOnly
  /\ resp.q.toMs # NoMs
  /\ resp.rows = <<>>
  /\ \E i \in 1 .. Len(lifecycles) :
       /\ ~IsOpen(lifecycles[i])
       /\ Len(lcFills[i]) = 3
       /\ lcFills[i][1].side = "B" /\ lcFills[i][1].builderFee > 0
       /\ lcFills[i][2].side = "B" /\ lcFills[i][2].builderFee = 0
       /\ lcFills[i][3].side = "A"
       /\ \A k \in 1 .. 3 : InQueriedRange(resp.q, lcFills[i][k].timeMs)

\* C13: with builderOnly, GET /v1/positions/history returns a stored snapshot of the
\* queried range iff its timestamp lies in the interval of some stored lifecycle of its
\* coin that is not tainted; a snapshot inside no lifecycle interval is not returned.
C13_AttributedOnlyPositions ==
  (Served("positions") /\ resp.q.builderOnly) =>
    \A s \in Queried(resp.q, positions) :
      s \in RowSet(resp.rows)
        <=> \E k \in LifecyclesAround(s) : ~Tainted(lifecycles[k])

\* C14: the builderOnly trade listing and the builderOnly position listing are the
\* same for every order in which the storage returns the lifecycle rows of the query.
C14_SameResultInAnyOrder ==
  /\ (Served("trades") /\ resp.q.builderOnly) =>
       \A lcs \in LifecycleOrders(resp.q) : getTrades(resp.q, lcs) = resp
  /\ (Served("positions") /\ resp.q.builderOnly) =>
       \A lcs \in LifecycleOrders(resp.q) : getPositions(resp.q, lcs) = resp

\* the trade listing of a user for the parameters of q, lifecycle rows by ascending id
TradesOf(q, user) ==
  LET qu == [q EXCEPT !.user = user]
  IN  getTrades(qu, FindLifecycles(qu, user)).rows

\* C15: with builderOnly and the same store and parameters, the fills GET /v1/pnl
\* aggregates, and those GET /v1/leaderboard aggregates for each user it lists, are
\* exactly the fills GET /v1/trades returns, and tradeCount is their number.
C15_SameFillsOnAllPaths ==
  /\ (Served("pnl") /\ resp.q.builderOnly) =>
       /\ RowSet(resp.rows) = RowSet(TradesOf(resp.q, resp.q.user))
       /\ resp.body.tradeCount = Len(TradesOf(resp.q, resp.q.user))
  /\ (Served("leaderboard") /\ resp.q.builderOnly) =>
       \A i \in 1 .. Len(resp.body) :
         /\ RowSet(resp.rows[i]) = RowSet(TradesOf(resp.q, resp.body[i].user))
         /\ resp.body[i].tradeCount = Len(TradesOf(resp.q, resp.body[i].user))

\* a builderOnly PnL summary that counts one fill of a store that holds an attributed
\* fill inside a tainted lifecycle as well
C15_Witness ==
  /\ Served("pnl")
  /\ resp.q.builderOnly
  /\ resp.body.tradeCount = 1
  /\ \E f \in fillsDb :
       /\ f.builderFee > 0
       /\ f \notin RowSet(resp.rows)
       /\ RowWhere(resp.q, f)

\* C16: a request with both fromMs and toMs returns or aggregates only records with
\* fromMs <= timeMs <= toMs, on /v1/trades, /v1/positions/history, /v1/pnl and
\* /v1/leaderboard.
C16_OnlyRecordsOfTheRange ==
  (resp.kind # "none" /\ resp.status = 200 /\ resp.q.fromMs # NoMs /\ resp.q.toMs # NoMs) =>
    /\ resp.kind \in {"trades", "positions", "pnl"} =>
         \A r \in RowSet(resp.rows) :
           resp.q.fromMs <= r.timeMs /\ r.timeMs <= resp.q.toMs
    /\ resp.kind = "leaderboard" =>
         \A i \in 1 .. Len(resp.rows) : \A r \in RowSet(resp.rows[i]) :
           resp.q.fromMs <= r.timeMs /\ r.timeMs <= resp.q.toMs

RECURSIVE PnlOfSet(_)
PnlOfSet(S) ==
  IF S = {} THEN 0
  ELSE LET f == CHOOSE f \in S : TRUE
       IN  (IF Len(f.closedPnl) = 1 THEN f.closedPnl[1] ELSE 0) + PnlOfSet(S \ {f})

RECURSIVE FeeOfSet(_)
FeeOfSet(S) ==
  IF S = {} THEN 0
  ELSE LET f == CHOOSE f \in S : TRUE IN f.fee + FeeOfSet(S \ {f})

\* C17: for the fills F that GET /v1/pnl aggregates, a subset of the stored fills,
\* realizedPnl is the sum of closedPnl over F with a missing closedPnl counted as zero,
\* feesPaid the sum of fee over F and tradeCount = |F|; all three are zero for empty F.
C17_PnlAggregates ==
  Served("pnl") =>
    LET F == RowSet(resp.rows)
    IN  /\ F \subseteq fillsDb
        /\ resp.body.realizedPnl = PnlOfSet(F)
        /\ resp.body.feesPaid = FeeOfSet(F)
        /\ resp.body.tradeCount = Cardinality(F)
        /\ F = {} => /\ resp.body.realizedPnl = 0
                     /\ resp.body.feesPaid = 0
                     /\ resp.body.tradeCount = 0

\* a PnL summary over three fills of which one carries no closedPnl
C17_Witness ==
  /\ Served("pnl")
  /\ resp.body.tradeCount = 3
  /\ resp.body.realizedPnl = 10000
  /\ resp.body.feesPaid = 6
  /\ \E f \in RowSet(resp.rows) : f.closedPnl = NoPnl

\* the account value of the latest stored snapshot of a user at or before timeMs
EquityAtRangeStart(user, fromMs) ==
  LET rows == {e \in equityDb : e.user = user /\ e.timeMs <= fromMs}
  IN  {e.accountValue : e \in {x \in rows : \A y \in rows : y.timeMs <= x.timeMs}}

\* the responses with a return: a PnL summary, or a leaderboard by returnPct, as a set
\* of <<user, realized PnL, returnPct>>
Returns ==
  IF Served("pnl")
    THEN {<<resp.q.user, resp.body.realizedPnl, resp.body.returnPct>>}
  ELSE IF Served("leaderboard") /\ resp.q.metric = "returnPct"
    THEN {<<resp.body[i].user, PnlOfSet(RowSet(resp.rows[i])), resp.body[i].metricValue>> :
            i \in 1 .. Len(resp.body)}
  ELSE {}

CapSupplied(q) == q.maxStartCapital # NoCap

\* the capital of the claim: min(equity, cap) when a cap is supplied, else the equity
CapitalBase(q, equityAt) ==
  IF CapSupplied(q) /\ q.maxStartCapital[1] < equityAt THEN q.maxStartCapital[1]
  ELSE equityAt

\* C18: when the equity at the range start is positive, returnPct = 100 * realizedPnl /
\* effectiveCapital, effectiveCapital = min(equity, cap) if a cap is supplied and the
\* equity otherwise; equity 1,000,000, cap 10,000 and realized PnL 5,000 give 50.
C18_CappedReturn ==
  \A r \in Returns :
    resp.q.fromMs # NoMs =>
      \A equityAt \in EquityAtRangeStart(r[1], resp.q.fromMs) :
        equityAt > 0 =>
          /\ r[3][2] > 0
          /\ r[3][1] * CapitalBase(resp.q, equityAt) = 100 * r[2] * r[3][2]
          /\ (equityAt = 1000000 /\ resp.q.maxStartCapital = <<10000>> /\ r[2] = 5000)
               => r[3] = <<50, 1>>

\* a PnL summary of realized PnL 5,000 on equity 1,000,000 with cap 10,000
C18_Witness ==
  /\ Served("pnl")
  /\ resp.q.fromMs # NoMs
  /\ resp.q.maxStartCapital = <<10000>>
  /\ resp.body.realizedPnl = 5000
  /\ EquityAtRangeStart(resp.q.user, resp.q.fromMs) = {1000000}
  /\ resp.body.returnPct = <<50, 1>>

\* C19: when the capital base is non-positive (the equity at the range start is <= 0 or
\* missing, or a supplied cap makes min(equity, cap) <= 0), the PnL and leaderboard
\* routes answer returnPct = 0 without an error.
C19_DegenerateReturnIsZero ==
  /\ (resp.kind \in {"pnl", "leaderboard"} /\ resp.status = 500) => FALSE
  /\ \A r \in Returns :
       LET eqs == IF resp.q.fromMs = NoMs THEN {}
                  ELSE EquityAtRangeStart(r[1], resp.q.fromMs)
       IN  (\/ eqs = {}
            \/ \E equityAt \in eqs : equityAt <= 0 \/ CapitalBase(resp.q, equityAt) <= 0)
             => r[3] = <<0, 1>>

\* C20: with builderOnly, no account that has a tainted stored lifecycle appears in the
\* leaderboard.
C20_TaintedAccountNeverListed ==
  (Served("leaderboard") /\ resp.q.builderOnly) =>
    \A i \in 1 .. Len(resp.body) :
      \A k \in 1 .. Len(lifecycles) :
        lifecycles[k].user = resp.body[i].user => ~Tainted(lifecycles[k])

\* C21: the leaderboard is sorted by metric value in descending order, and the same
\* store state always yields the same order of the entries, whatever the order in which
\* the storage returns the fill rows (accounts of equal metric value included).
C21_SameOrderForSameStore ==
  Served("leaderboard") =>
    /\ \A i, j \in 1 .. Len(resp.body) :
         i < j => ~FracLess(resp.body[i].metricValue, resp.body[j].metricValue)
    /\ \A fills \in FillOrders(resp.q) :
         getLeaderboard(resp.q, fills).body = resp.body

\* C22: the rank is a 1-based dense rank: the top entry has rank 1, entries of equal
\* metric value have the same rank, and the next distinct metric value has the next rank.
C22_DenseRank ==
  Served("leaderboard") =>
    /\ Len(resp.body) > 0 => resp.body[1].rank = 1
    /\ \A i \in 1 .. Len(resp.body) - 1 :
         resp.body[i + 1].rank =
           IF resp.body[i + 1].metricValue = resp.body[i].metricValue
             THEN resp.body[i].rank
             ELSE resp.body[i].rank + 1

\* the sum of px * sz over a set of fills
RECURSIVE NotionalOfSet(_)
NotionalOfSet(S) ==
  IF S = {} THEN 0
  ELSE LET f == CHOOSE f \in S : TRUE IN f.px * f.sz + NotionalOfSet(S \ {f})

\* the fill rows of the leaderboard query of q that belong to an account
OwnFills(q, user) == {f \in fillsDb : BoardWhere(q, f) /\ f.user = user}

\* C23: metricValue and tradeCount of a leaderboard entry are computed from the
\* account's own filtered fills alone (volume = sum of px * sz, pnl = sum of closedPnl):
\* they are those of the account's own trade listing, and the leaderboard of a store
\* without the fills of every other account gives the account the same two values.
C23_EntryOfOwnFillsOnly ==
  Served("leaderboard") =>
    \A i \in 1 .. Len(resp.body) :
      LET user == resp.body[i].user
          own == RowSet(TradesOf(resp.q, user))
      IN  /\ resp.body[i].tradeCount = Cardinality(own)
          /\ resp.q.metric = "volume" =>
               resp.body[i].metricValue = <<NotionalOfSet(own), 1>>
          /\ resp.q.metric = "pnl" =>
               resp.body[i].metricValue = <<PnlOfSet(own), 1>>
          /\ \A alone \in PermSeqs(OrderByTime(OwnFills(resp.q, user))) :
               LET body == getLeaderboard(resp.q, alone).body
               IN  /\ Len(body) = 1
                   /\ body[1].user = user
                   /\ body[1].metricValue = resp.body[i].metricValue
                   /\ body[1].tradeCount = resp.body[i].tradeCount

\* a builderOnly leaderboard with one entry, served while another account has stored
\* fills and a tainted lifecycle
C23_Witness ==
  /\ Served("leaderboard")
  /\ resp.q.builderOnly
  /\ Len(resp.body) = 1
  /\ \E f \in fillsDb : f.user # resp.body[1].user
  /\ \E k \in 1 .. Len(lifecycles) :
       lifecycles[k].user # resp.body[1].user /\ Tainted(lifecycles[k])

C25_UpstreamFailureReported ==
  /\ (resp.kind = "ingest" /\ resp.status # 400 /\ resp.failure \in {"fills", "equity"})
       => resp.status # 200
  /\ resp.kind = "ingestMultipleUsers"
       => \A f \in resp.failed : f[2] \notin {"fills", "equity"}

\* C26: after a pass that a failing write ended, a complete pass over the same fills of
\* the same (account, instrument), started on the tables the failed pass left, leaves
\* exactly the snapshots, lifecycles and lifecycle flags that one uninterrupted pass
\* from the tables before the failed pass leaves.
C26_RetryAfterAbort ==
  (/\ AllIdle
   /\ lastPass.aborted # <<>>
   /\ lastPass.aborted[1].user = lastPass.user
   /\ lastPass.aborted[1].coin = lastPass.coin
   /\ lastPass.aborted[1].input = lastPass.input
   /\ lastPass.aborted[1].left = lastPass.base)
    => lastPass.result = reconstructPositionHistory(lastPass.aborted[1].base, lastPass.user,
                                                    lastPass.coin, lastPass.input)

\* the lifecycles of an (account, instrument) according to the stored fills: those of
\* one pass over them on empty tables
LifecyclesOfStoredFills(user, coin) ==
  reconstructPositionHistory([positions |-> {}, lifecycles |-> <<>>], user, coin,
                             OrderByTime({f \in fillsDb : f.user = user /\ f.coin = coin})
                            ).lifecycles

\* the record of (user, coin) at timeMs belongs to a lifecycle that, by the stored
\* fills, holds builder and non-builder fills
InMixedLifecycle(user, coin, timeMs) ==
  LET lcs == LifecyclesOfStoredFills(user, coin)
  IN  \E k \in 1 .. Len(lcs) : InRange(timeMs, lcs[k]) /\ Tainted(lcs[k])

\* C27: a builderOnly response of trades, positions, pnl or leaderboard, served at any
\* moment of an ingestion of the same (account, instrument), holds no fill and no
\* snapshot of a lifecycle that, according to the fills already stored, contains both
\* builder and non-builder fills.
C27_NoHalfAppliedLifecycle ==
  /\ ((Served("trades") \/ Served("pnl")) /\ resp.q.builderOnly) =>
       \A f \in RowSet(resp.rows) : ~InMixedLifecycle(f.user, f.coin, f.timeMs)
  /\ (Served("positions") /\ resp.q.builderOnly) =>
       \A r \in RowSet(resp.rows) : ~InMixedLifecycle(r.user, r.coin, r.timeMs)
  /\ (Served("leaderboard") /\ resp.q.builderOnly) =>
       \A i \in 1 .. Len(resp.rows) :
         \A f \in RowSet(resp.rows[i]) : ~InMixedLifecycle(f.user, f.coin, f.timeMs)

\* C28: when two ingestions of the same account whose steps interleave have both
\* ended, the stored fills, snapshots and lifecycles are those that a single ingestion of
\* the account's fills leaves on the store the two started on (the empty store).
C28_ConcurrentIngestionAsOne ==
  (AllIdle /\ ingests = 2) =>
    \A user \in Users :
      LET fills == getUserFills(user, NoCoin)
      IN  fills # <<>> =>
            /\ fillsDb = StoreFills({}, user, fills)
            /\ [positions |-> positions, lifecycles |-> lifecycles]
                 = reconstructPositionHistory([positions |-> {}, lifecycles |-> <<>>],
                                              user, "BTC", fills)

NoTwoSameTid(s) == \A i, j \in 1 .. Len(s) : i # j => s[i].tid # s[j].tid

AscendingTimeMs(s) == \A i \in 1 .. Len(s) - 1 : s[i].timeMs <= s[i + 1].timeMs

\* C29: whatever pages the venue answers with, the list getUserFills returns holds no
\* two fills of the same tid, only fills of the requested coin when a coin is given, and
\* its fills by ascending timeMs
C29_FetchedFillsContract ==
  fetch.pc = "done" =>
    /\ NoTwoSameTid(fetch.result)
    /\ fetch.coin # NoCoin => \A i \in 1 .. Len(fetch.result) : fetch.result[i].coin = fetch.coin
    /\ AscendingTimeMs(fetch.result)

\* a call for one coin returned after several pages that repeated a tid, held a fill of
\* another coin and came newest first
C29_Witness ==
  /\ fetch.pc = "done"
  /\ fetch.coin # NoCoin
  /\ fetch.batchCount >= 2
  /\ fetch.skipped
  /\ Len(fetch.allFills) > Len(fetch.result)
  /\ ~AscendingTimeMs(fetch.allFills)
  /\ Len(fetch.result) >= 1

\* the stored record of a fetched fill: the fill under its key
RecordOf(user, fill) ==
  [fill EXCEPT !.user = IF fill.user # "" THEN fill.user ELSE user,
               !.tid = FillKey(user, fill)]

\* C30: fill storage is idempotent on the external id: no two records share a tid however
\* often a fill is ingested, and no two distinct fills are merged into one record, so
\* every fill of the last ingestion, with or without tid, has its own record
C30_FillStorageIdempotent ==
  /\ \A f, g \in fillsDb : f.tid = g.tid => f = g
  /\ (AllIdle /\ lastPass.user # "") =>
       \A i \in 1 .. Len(lastPass.input) :
         RecordOf(lastPass.user, lastPass.input[i]) \in fillsDb

\* the interval of a lifecycle meets the range a request asks for
MeetsQueriedRange(q, lc) ==
  /\ q.fromMs # NoMs => IsOpen(lc) \/ lc.endMs >= q.fromMs
  /\ q.toMs # NoMs => lc.startMs <= q.toMs

\* C31: with builderOnly the PnL response carries tainted = true iff some lifecycle of
\* the user in the queried coin and range is tainted, and it aggregates no fill that lies
\* inside a tainted lifecycle; without builderOnly it carries no tainted field and
\* aggregates all fills of the range and no other.
C31_PnlTaintFlag ==
  Served("pnl") =>
    IF resp.q.builderOnly
      THEN /\ resp.body.tainted \in {"true", "false"}
           /\ resp.body.tainted = "true"
                <=> \E k \in 1 .. Len(lifecycles) :
                      /\ lifecycles[k].user = resp.q.user
                      /\ resp.q.coin # NoCoin => lifecycles[k].coin = resp.q.coin
                      /\ MeetsQueriedRange(resp.q, lifecycles[k])
                      /\ Tainted(lifecycles[k])
           /\ \A f \in RowSet(resp.rows) :
                \A k \in LifecyclesAround(f) : ~Tainted(lifecycles[k])
      ELSE /\ resp.body.tainted = "undefined"
           /\ RowSet(resp.rows) = Queried(resp.q, fillsDb)

\* C32: sizes are computed exactly in decimal: whenever the signed sizes of the fills
\* processed sum to exactly zero, the running netSize is zero and no lifecycle is open
C32_DecimalZeroIsFlat ==
  (dec.fills # <<>> /\ dec.exact = 0) =>
    /\ FloatIsZero(dec.netSize)
    /\ dec.currentLifecycleId = Null

\* the closing update of some stored lifecycle happens in the step
SomeEndSet == \E i \in 1 .. Len(lifecycles) : lifecycles'[i].endMs # lifecycles[i].endMs

\* C33: a fill that takes the position through zero (netSize non-zero before and after,
\* with opposite signs) fires no transition: no lifecycle is created, none is closed, the
\* open lifecycle stays current with its rows unchanged and the fill's attribution is
\* OR-ed into the flags of the pass; and no fill both opens and closes a lifecycle.
C33_FlipFiresNoTransition ==
  [][\A p \in Procs :
       IsStep(p) =>
         LET t == trk[p]
             fill == t.sortedFills[t.i + 1]
             old == SignedSum(SubSeq(t.sortedFills, 1, t.i))
             new == SignedSum(SubSeq(t.sortedFills, 1, t.i + 1))
         IN  /\ ((old > 0 /\ new < 0) \/ (old < 0 /\ new > 0)) =>
                  /\ lifecycles' = lifecycles
                  /\ t.currentLifecycleId # Null
                  /\ trk'[p].currentLifecycleId = t.currentLifecycleId
                  /\ lifecycles'[t.currentLifecycleId].endMs = Null
                  /\ trk'[p].hasBuilderFills = (t.hasBuilderFills \/ fill.builderFee > 0)
                  /\ trk'[p].hasNonBuilderFills
                       = (t.hasNonBuilderFills \/ ~(fill.builderFee > 0))
             /\ ~(Len(lifecycles') > Len(lifecycles) /\ SomeEndSet)
             /\ Len(lifecycles') > Len(lifecycles) =>
                  lifecycles'[Len(lifecycles')].endMs = Null]_vars

\* a pass stands short after a sell with a builder fee took a long position of
\* unattributed fills through zero
C33_Witness ==
  \E p \in Procs :
    /\ trk[p].pc = "loop"
    /\ trk[p].i >= 2
    /\ SignedSum(SubSeq(trk[p].sortedFills, 1, trk[p].i - 1)) > 0
    /\ trk[p].netSize < 0
    /\ trk[p].sortedFills[trk[p].i].builderFee > 0
    /\ ~HasBuilder(SubSeq(trk[p].sortedFills, 1, trk[p].i - 1))
    /\ trk[p].hasBuilderFills /\ trk[p].hasNonBuilderFills
    /\ trk[p].currentLifecycleId # Null

\* the snapshots and the lifecycle rows of every instrument but coin
OtherCoins(tables, coin) ==
  [positions |-> {s \in tables.positions : s.coin # coin},
   lifecycles |-> SelectSeq(tables.lifecycles, LAMBDA lc : lc.coin # coin)]

\* C34: instruments never interact: a pass over coin X leaves every snapshot and every
\* lifecycle of the other coins as it found them, and a builderOnly trade, position or
\* PnL view leaves out a stored record of the request only for its own fee or for the
\* lifecycles of the record's own coin.
C34_InstrumentsNeverInteract ==
  /\ \A p \in Procs :
       trk[p].pc = "loop" =>
         OtherCoins([positions |-> positions, lifecycles |-> lifecycles], trk[p].coin)
           = OtherCoins(trk[p].base, trk[p].coin)
  /\ lastPass.user # "" =>
       OtherCoins(lastPass.result, lastPass.coin) = OtherCoins(lastPass.base, lastPass.coin)
  /\ ((Served("trades") \/ Served("pnl")) /\ resp.q.builderOnly) =>
       \A f \in {g \in fillsDb : RowWhere(resp.q, g)} :
         f \notin RowSet(resp.rows)
           => \/ ~(f.builderFee > 0)
              \/ \E k \in LifecyclesAround(f) : Tainted(lifecycles[k])
  /\ (Served("positions") /\ resp.q.builderOnly) =>
       \A s \in {r \in positions : RowWhere(resp.q, r)} :
         s \notin RowSet(resp.rows)
           => \/ LifecyclesAround(s) = {}
              \/ \E k \in LifecyclesAround(s) : Tainted(lifecycles[k])

\* a builderOnly trade listing over both coins returns an attributed fill of one coin
\* whose timestamp lies inside a tainted lifecycle of the other coin
C34_Witness ==
  /\ Served("trades")
  /\ resp.q.builderOnly
  /\ resp.q.coin = NoCoin
  /\ \E f \in RowSet(resp.rows) :
       \E k \in 1 .. Len(lifecycles) :
         /\ lifecycles[k].coin # f.coin
         /\ lifecycles[k].user = f.user
         /\ Tainted(lifecycles[k])
         /\ InRange(f.timeMs, lifecycles[k])
  /\ \E s, r \in positions : s.coin # r.coin

\* the stored lifecycles of the user and coin of a request whose interval meets the
\* range the request asks for
LifecyclesMeeting(q) ==
  {k \in 1 .. Len(lifecycles) : /\ lifecycles[k].user = q.user
                                /\ q.coin # NoCoin => lifecycles[k].coin = q.coin
                                /\ MeetsQueriedRange(q, lifecycles[k])}

\* C35: in a builderOnly request with fromMs or toMs the lifecycle query misses no
\* lifecycle that meets the range, and every tainted one of them, also when it started
\* before fromMs, keeps every fill of the range inside its interval out of the response
C35_OverlappingLifecyclesCount ==
  ((Served("trades") \/ Served("pnl")) /\ resp.q.builderOnly
     /\ (resp.q.fromMs # NoMs \/ resp.q.toMs # NoMs)) =>
    \A k \in LifecyclesMeeting(resp.q) :
      /\ LifecycleWhere(resp.q, resp.q.user, lifecycles[k])
      /\ Tainted(lifecycles[k]) =>
           \A f \in Queried(resp.q, fillsDb) :
             (f.coin = lifecycles[k].coin /\ InRange(f.timeMs, lifecycles[k]))
               => f \notin RowSet(resp.rows)

\* a builderOnly trade listing from fromMs on that is empty although an attributed fill
\* lies in the range: the fill is inside a tainted lifecycle that started before fromMs
C35_Witness ==
  /\ Served("trades")
  /\ resp.q.builderOnly
  /\ resp.q.fromMs # NoMs
  /\ resp.rows = <<>>
  /\ \E k \in LifecyclesMeeting(resp.q) :
       /\ Tainted(lifecycles[k])
       /\ lifecycles[k].startMs < resp.q.fromMs
       /\ \E f \in Queried(resp.q, fillsDb) :
            f.builderFee > 0 /\ InRange(f.timeMs, lifecycles[k])

\* C36: during a pass, after each fill is processed, a lifecycle is current iff the
\* running netSize is not zero; so a fill that opens a lifecycle never finds one
\* current, and the safeguard that closes it is never executed.
C36_OpenIffNonZero ==
  \A p \in Procs :
    trk[p].pc = "loop" =>
      LET t == trk[p]
      IN  /\ (t.currentLifecycleId # Null) <=> (t.netSize # 0)
          /\ t.i < Len(t.sortedFills) =>
               LET newSize == add(t.netSize, signedFillSize(t.sortedFills[t.i + 1]))
               IN  (isZero(t.netSize) /\ ~isZero(newSize)) => t.currentLifecycleId = Null

\* a pass in which a lifecycle was closed, none is current at netSize zero, and the next
\* fill opens another
C36_Witness ==
  \E p \in Procs :
    /\ trk[p].pc = "loop"
    /\ trk[p].i >= 2
    /\ trk[p].i < Len(trk[p].sortedFills)
    /\ trk[p].netSize = 0
    /\ trk[p].currentLifecycleId = Null
    /\ \E k \in 1 .. Len(lifecycles) : lifecycles[k].endMs # Null

\* s is t with some elements left out
RECURSIVE IsSubSeq(_, _)
IsSubSeq(s, t) ==
  IF s = <<>> THEN TRUE
  ELSE IF t = <<>> THEN FALSE
  ELSE IF Head(s) = Head(t) THEN IsSubSeq(Tail(s), Tail(t))
  ELSE IsSubSeq(s, Tail(t))

\* the response of GET /v1/trades to the request of resp without builderOnly, on the
\* same store
AllTrades == getTrades([resp.q EXCEPT !.builderOnly = FALSE], <<>>)

\* C37: on one store and one (user, coin, fromMs, toMs) the builderOnly trade listing is
\* a sub-sequence of the all-trades listing, by ascending timeMs, and each of its fills
\* has a positive builder fee and the label builder = 'attributed'.
C37_BuilderOnlyIsSubSequence ==
  (Served("trades") /\ resp.q.builderOnly) =>
    /\ IsSubSeq(resp.rows, AllTrades.rows)
    /\ IsSubSeq(resp.body, AllTrades.body)
    /\ \A i \in 1 .. Len(resp.body) - 1 : resp.body[i].timeMs <= resp.body[i + 1].timeMs
    /\ \A i \in 1 .. Len(resp.body) :
         /\ resp.rows[i].builderFee > 0
         /\ resp.body[i].builder = "attributed"

\* a builderOnly listing of two attributed fills out of three stored fills of the range
C37_Witness ==
  /\ Served("trades")
  /\ resp.q.builderOnly
  /\ Len(resp.body) = 2
  /\ Len(AllTrades.body) = 3
  /\ \E i \in 1 .. 3 : AllTrades.body[i].builder = "undefined"

\* C38: every entry of a leaderboard response has tainted = false, with and without
\* builderOnly and whatever lifecycle rows are stored, and no entry has tradeCount 0
C38_EntriesUntaintedAndCounted ==
  Served("leaderboard") =>
    \A i \in 1 .. Len(resp.body) :
      /\ resp.body[i].tainted = FALSE
      /\ resp.body[i].tradeCount # 0
      /\ resp.body[i].tradeCount = Len(resp.rows[i])

\* a builderOnly listing with an entry of an account that has a tainted lifecycle row
C38_Witness ==
  /\ Served("leaderboard") /\ resp.q.builderOnly
  /\ \E i \in 1 .. Len(resp.body) :
       /\ resp.body[i].tradeCount >= 1
       /\ \E k \in 1 .. Len(lifecycles) :
            lifecycles[k].user = resp.body[i].user /\ isLifecycleTainted(lifecycles[k])

\* ---- a venue that never runs out of fills: every page is made of the fill returned
\* last and of a fill with a tid not returned before, all of one time
HLFillAt(time, tid) ==
  [coin |-> "BTC", px |-> 50000, sz |-> 1, side |-> "B", dir |-> "Open Long",
   time |-> time, closedPnl |-> 0, fee |-> 2, tid |-> tid, builderFee |-> 0]

PagingFills ==
  LET returned == Cardinality(fetch.seenTids)
  IN  {HLFillAt(MaxFetchMs, tid) : tid \in {returned, returned + 1} \ {0}}

PagingPages == UNION {[1 .. n -> PagingFills] : n \in 0 .. FullBatch}

\* a turn of the loop, told by what it leaves: the request was rejected, or it was
\* answered and counted (axios timeout: 30000, so every request ends one way or the other)
FetchTurn ==
  /\ fetch.pc = "loop"
  /\ \/ FetchThrows
     \/ /\ fetch'.batchCount = fetch.batchCount + 1
        /\ UNCHANGED <<dec, depositsDb, upstream, fillsDb, positions, lifecycles, trk,
                       ingests, lcFills, lastPass, avgCall, equity, equityDb, resp>>

NextPaging ==
  \/ \E user \in Users, fromMs \in Optional({MaxFetchMs}) :
       FetchStart(user, NoCoin, fromMs, Absent)
  \/ \E fills \in PagingPages : FetchBatch(fills)
  \/ FetchThrows

SpecPaging == Init /\ [][NextPaging]_vars /\ WF_vars(FetchTurn)

\* the requests a call of getUserFills has issued: one per turn, and the rejected one
FetchRequests == fetch.batchCount + (IF fetch.pc = "failed" THEN 1 ELSE 0)

\* one turn of the loop on the page fills: the cases in which the loop ends with it
StopsOn(fills) ==
  LET noNewTid == \A i \in 1 .. Len(fills) : TidString(fills[i].tid) \in fetch.seenTids
      ended == fetch'.pc = "done"
  IN  /\ fetch'.batchCount = fetch.batchCount + 1
      /\ fills = <<>> => ended
      /\ fills # <<>> =>
           /\ fetch'.consecutiveDuplicateBatches =
                (IF noNewTid THEN fetch.consecutiveDuplicateBatches + 1 ELSE 0)
           /\ (noNewTid /\ fetch.consecutiveDuplicateBatches + 1 >= 3) => ended
           /\ (noNewTid /\ Len(fills) < FullBatch) => ended
           /\ (fetch.fromMs # Absent /\ fills[Len(fills)].time <= fetch.fromMs[1]) => ended

StopsEarly == \A fills \in PagingPages : (fetch.pc = "loop" /\ FetchBatch(fills)) => StopsOn(fills)

\* C39: whatever pages the venue answers with, getUserFills issues at most 50 requests and
\* then returns or fails; the loop ends on an empty page, on the third consecutive page
\* without a new tid, on a short page without a new tid, and on a page whose oldest fill
\* is at or before fromMs
C39_PaginationTerminates ==
  /\ [](FetchRequests <= maxBatches /\ (fetch.batchCount = maxBatches => fetch.pc # "loop"))
  /\ [][StopsEarly]_vars
  /\ (fetch.pc = "loop") ~> (fetch.pc \in {"done", "failed"})

\* a call that returned after its 50th request, each page having brought a new tid
C39_Witness ==
  /\ fetch.pc = "done" /\ fetch.batchCount = maxBatches
  /\ Cardinality(fetch.seenTids) = maxBatches

============================================================================
